---- MODULE Spec2Model ----
(***************************************************************************)
(* KSERC truing-up decision support: heuristic records, line items and     *)
(* the business-unit aggregator (sbu_base.py, line_items.py, heuristics/,  *)
(* sbu_config.py) together with the staff review action of app.py.         *)
(*                                                                         *)
(* Amounts are fixed-point integers in units of 0.0001 Cr, so 116.3778 Cr  *)
(* is 1163778.  Percentages that the code passes as floats are integers    *)
(* (14 for a rate of 0.14, 10 for an allocation ratio of 10%).             *)
(*                                                                         *)
(* LineItemBase also keeps final_approved_amount and all_reviews_complete, *)
(* which get_approved_amount and check_review_status assign and nothing in *)
(* the repository reads; they are not part of the state here.              *)
(***************************************************************************)
EXTENDS Integers, Sequences, FiniteSets, TLC

VARIABLES sbu, items, total_arr, aggregation_complete, ret, reviews

vars == <<sbu, items, total_arr, aggregation_complete, ret, reviews>>

----
\* Values

\* Python None in a string- or enum-valued field
None == "None"

\* Python None in an amount-valued field
NoAmount == -999999999

\* datetime.now().strftime(...) : the wall-clock text written by a review
Now == "now"

Abs(x) == IF x < 0 THEN -x ELSE x

Min(a, b) == IF a <= b THEN a ELSE b

\* inputs.get(k, d) on an input dictionary
Get(inputs, k, d) == IF k \in DOMAIN inputs THEN inputs[k] ELSE d

\* result.get(k) on a record: None (here d) when the key is absent
RGet(r, k, d) == IF k \in DOMAIN r THEN r[k] ELSE d

\* round(x, 2) on an amount: nearest multiple of 0.01 Cr, ties to even
Round2(x) ==
    LET q == x \div 100
        r == x % 100
    IN  IF r < 50 THEN q * 100
        ELSE IF r > 50 THEN (q + 1) * 100
        ELSE IF q % 2 = 0 THEN q * 100 ELSE (q + 1) * 100

\* abs(variance / allowable * 100) <= p, for allowable # 0
AbsPctLe(variance, allowable, p) == 100 * Abs(variance) <= p * Abs(allowable)

----
\* Bounds of the exploration

\* number of successful review actions explored in one session
MaxReviews == 3

\* reviewer names and justification texts typed into the review form
StaffNames == {"", "staff"}

Justifications == {"", "reason"}

\* flags chosen in the select box of the review form (it also offers YELLOW)
NewFlags == {"GREEN", "RED"}

\* amounts typed into the override form
NewAmounts == {0, 1000000}

----
\* Heuristics (Tier 1)

\* the Staff Review section that most heuristics return unset
StaffReviewUnset ==
    [staff_override_flag   |-> None,
     staff_approved_amount |-> NoAmount,
     staff_justification   |-> "",
     staff_review_status   |-> "Pending",
     reviewed_by           |-> None,
     reviewed_at           |-> None]

\* the "Staff review handling" block of the IFC / Master Trust / other-items
\* heuristics: tol is the acceptance tolerance of the heuristic
StaffReviewHandling(staff_name, staff_approved_amount, staff_justification, allowable, tol) ==
    [staff_override_flag   |-> IF staff_approved_amount # NoAmount
                                  /\ ~(Abs(staff_approved_amount - allowable) < tol)
                               THEN "STAFF_OVERRIDE" ELSE None,
     staff_approved_amount |-> IF staff_approved_amount # NoAmount
                               THEN staff_approved_amount ELSE allowable,
     staff_justification   |-> staff_justification,
     staff_review_status   |-> IF staff_approved_amount = NoAmount THEN "Pending"
                               ELSE IF Abs(staff_approved_amount - allowable) < tol
                                    THEN "Accepted" ELSE "Overridden",
     reviewed_by           |-> IF staff_approved_amount # NoAmount /\ staff_name # ""
                               THEN staff_name ELSE None,
     reviewed_at           |-> IF staff_approved_amount # NoAmount THEN Now ELSE None]

heuristic_ROE_01(equity_capital, roe_rate, claimed_roe, equity_infusion_during_year) ==
    LET adjusted_equity == equity_capital + equity_infusion_during_year
        allowable_roe   == (adjusted_equity * roe_rate) \div 100
        variance_abs    == claimed_roe - allowable_roe
    IN  [heuristic_id       |-> "ROE-01",
         flag               |-> IF Abs(variance_abs) < 100 THEN "GREEN" ELSE "RED",
         recommended_amount |-> allowable_roe,
         is_primary         |-> TRUE,
         output_type        |-> "approved_amount"] @@ StaffReviewUnset

heuristic_NTI_01(myt_baseline_nti, base_income_from_accounts, exclusion_grant_clawback, exclusion_led_bulbs, exclusion_nilaavu_scheme, exclusion_provision_reversals, exclusion_kwa_unrealized, addition_kwa_arrears_released, other_exclusions, other_additions, claimed_nti) ==
    LET total_exclusions == exclusion_grant_clawback + exclusion_led_bulbs
                            + exclusion_nilaavu_scheme + exclusion_provision_reversals
                            + exclusion_kwa_unrealized + other_exclusions
        total_additions  == addition_kwa_arrears_released + other_additions
        allowable_nti == base_income_from_accounts - total_exclusions + total_additions
        variance      == claimed_nti - allowable_nti
        within(p)     == IF allowable_nti > 0 THEN AbsPctLe(variance, allowable_nti, p) ELSE TRUE
    IN  [heuristic_id       |-> "NTI-01",
         flag               |-> IF within(2) THEN "GREEN"
                                ELSE IF within(5) THEN "YELLOW" ELSE "RED",
         recommended_amount |-> allowable_nti,
         is_primary         |-> TRUE,
         output_type        |-> "approved_amount"] @@ StaffReviewUnset

\* flag bands of MT-BOND-01 and MT-REPAY-01: <=1% GREEN, <=3% YELLOW, else RED
MT_VarianceFlag(claimed, allowable) ==
    LET within(p) == IF allowable # 0 THEN AbsPctLe(claimed - allowable, allowable, p) ELSE TRUE
    IN  IF within(1) THEN "GREEN" ELSE IF within(3) THEN "YELLOW" ELSE "RED"

heuristic_MT_BOND_01(total_bond_interest, sbu_allocation_ratio, claimed_bond_interest_sbu, staff_name, staff_approved_amount, staff_justification) ==
    LET allowable == (total_bond_interest * sbu_allocation_ratio) \div 100
    IN  [heuristic_id       |-> "MT-BOND-01",
         flag               |-> MT_VarianceFlag(claimed_bond_interest_sbu, allowable),
         recommended_amount |-> allowable,
         is_primary         |-> TRUE,
         output_type        |-> "pass_through"]
        @@ StaffReviewHandling(staff_name, staff_approved_amount, staff_justification,
                               allowable, 5000)

heuristic_MT_REPAY_01(annual_principal_repayment, sbu_allocation_ratio, claimed_principal_repayment_sbu, staff_name, staff_approved_amount, staff_justification) ==
    LET allowable == (annual_principal_repayment * sbu_allocation_ratio) \div 100
    IN  [heuristic_id       |-> "MT-REPAY-01",
         flag               |-> MT_VarianceFlag(claimed_principal_repayment_sbu, allowable),
         recommended_amount |-> allowable,
         is_primary         |-> TRUE,
         output_type        |-> "pass_through"]
        @@ StaffReviewHandling(staff_name, staff_approved_amount, staff_justification,
                               allowable, 5000)

heuristic_MT_ADD_01(actuarial_liability_current_year, provisional_cap, sbu_allocation_ratio, claimed_additional_contribution_sbu, actuarial_report_submitted, govt_approval_obtained, staff_name, staff_approved_amount, staff_justification) ==
    LET allowable_total ==
            IF actuarial_report_submitted /\ govt_approval_obtained
            THEN actuarial_liability_current_year
            ELSE IF actuarial_report_submitted /\ ~govt_approval_obtained
            THEN Min(provisional_cap, actuarial_liability_current_year)
            ELSE IF ~actuarial_report_submitted THEN provisional_cap
            ELSE 0
        flag ==
            IF actuarial_report_submitted /\ govt_approval_obtained THEN "GREEN"
            ELSE IF actuarial_report_submitted /\ ~govt_approval_obtained THEN "YELLOW"
            ELSE IF ~actuarial_report_submitted THEN "YELLOW"
            ELSE "RED"
        allowable_sbu == (allowable_total * sbu_allocation_ratio) \div 100
    IN  [heuristic_id       |-> "MT-ADD-01",
         flag               |-> flag,
         recommended_amount |-> allowable_sbu,
         is_primary         |-> TRUE,
         output_type        |-> "conditional"]
        @@ StaffReviewHandling(staff_name, staff_approved_amount, staff_justification,
                               allowable_sbu, 10000)

\* availabilities are in units of 0.01 percentage point (98.50% is 9850); the
\* float quotient arr * excess / target / 100 is taken to 0.0001 Cr
heuristic_TRANS_INCENT_01(target_availability, actual_availability, sldc_certified, arr_excluding_incentive, claimed_incentive, unbridged_revenue_gap, revenue_gap_threshold) ==
    LET formula_incentive ==
            IF actual_availability > target_availability
            THEN (arr_excluding_incentive * (actual_availability - target_availability))
                     \div (target_availability * 100)
            ELSE 0
        flag ==
            IF actual_availability <= target_availability THEN "GREEN"
            ELSE IF ~sldc_certified THEN "RED"
            ELSE IF unbridged_revenue_gap > revenue_gap_threshold THEN "YELLOW"
            ELSE "GREEN"
        allowable_incentive ==
            IF actual_availability <= target_availability THEN 0
            ELSE IF ~sldc_certified THEN 0
            ELSE IF unbridged_revenue_gap > revenue_gap_threshold THEN 0
            ELSE formula_incentive
    IN  [heuristic_id       |-> "TRANS-INCENT-01",
         claimed_value      |-> claimed_incentive,
         allowable_value    |-> Round2(allowable_incentive),
         flag               |-> flag,
         recommended_amount |-> Round2(allowable_incentive),
         is_primary         |-> TRUE,
         output_type        |-> "approved_amount"] @@ StaffReviewUnset

heuristic_INTANG_01(software_employee_costs_capitalized, software_amortization_claimed, software_supporting_docs_provided, software_employees_additional_to_norms, purchased_software_licenses, patents_ip, other_intangibles, other_intangibles_amortization, other_supporting_docs_provided, total_claimed_amortization, previous_year_amortization) ==
    LET software_flag ==
            IF software_amortization_claimed > 0
            THEN IF ~software_supporting_docs_provided THEN "RED"
                 ELSE IF ~software_employees_additional_to_norms THEN "RED"
                 ELSE "YELLOW"
            ELSE "GREEN"
        software_allowable ==
            IF software_amortization_claimed > 0
               /\ software_supporting_docs_provided
               /\ software_employees_additional_to_norms
            THEN software_amortization_claimed ELSE 0
        other_flag ==
            IF other_intangibles_amortization > 0 /\ ~other_supporting_docs_provided
            THEN "YELLOW" ELSE "GREEN"
        other_allowable ==
            IF other_intangibles_amortization > 0 THEN other_intangibles_amortization ELSE 0
        allowable_total == software_allowable + other_allowable
        overall_flag ==
            IF software_flag = "RED" \/ other_flag = "RED" THEN "RED"
            ELSE IF software_flag = "YELLOW" \/ other_flag = "YELLOW" THEN "YELLOW"
            ELSE "GREEN"
    IN  [heuristic_id       |-> "INTANG-01",
         claimed_value      |-> total_claimed_amortization,
         allowable_value    |-> allowable_total,
         flag               |-> overall_flag,
         recommended_amount |-> allowable_total,
         is_primary         |-> TRUE,
         output_type        |-> "approved_amount"] @@ StaffReviewUnset

\* faulty variant of heuristic_EXC_01: a negative takeover is netted off the
\* allowable amount
heuristic_EXC_01_nets_takeover(claimed_calamity_rm, claimed_govt_loss_takeover, separate_account_code, calamity_supporting_docs, staff_name, staff_approved_amount, staff_justification) ==
    LET allowable_calamity == IF separate_account_code THEN claimed_calamity_rm ELSE 0
        flag_calamity ==
            IF separate_account_code /\ calamity_supporting_docs THEN "GREEN"
            ELSE IF separate_account_code THEN "YELLOW" ELSE "RED"
        allowable_govt_takeover ==
            IF claimed_govt_loss_takeover < 0 THEN claimed_govt_loss_takeover ELSE 0
        flag_govt == IF claimed_govt_loss_takeover # 0 THEN "RED" ELSE "GREEN"
        total_allowable == allowable_calamity + allowable_govt_takeover
        overall_flag ==
            IF flag_calamity = "RED" \/ flag_govt = "RED" THEN "RED"
            ELSE IF flag_calamity = "YELLOW" THEN "YELLOW" ELSE "GREEN"
    IN  [heuristic_id       |-> "EXC-01",
         claimed_value      |-> claimed_calamity_rm + claimed_govt_loss_takeover,
         allowable_value    |-> total_allowable,
         flag               |-> overall_flag,
         recommended_amount |-> total_allowable,
         is_primary         |-> TRUE,
         output_type        |-> "discretionary"]
        @@ StaffReviewHandling(staff_name, staff_approved_amount, staff_justification,
                               total_allowable, 1000)

heuristic_EXC_01(claimed_calamity_rm, claimed_govt_loss_takeover, separate_account_code, calamity_supporting_docs, staff_name, staff_approved_amount, staff_justification) ==
    LET allowable_calamity == IF separate_account_code THEN claimed_calamity_rm ELSE 0
        flag_calamity ==
            IF separate_account_code /\ calamity_supporting_docs THEN "GREEN"
            ELSE IF separate_account_code /\ ~calamity_supporting_docs THEN "YELLOW"
            ELSE "RED"
        allowable_govt_takeover == 0
        flag_govt == IF claimed_govt_loss_takeover # 0 THEN "RED" ELSE "GREEN"
        total_allowable == allowable_calamity + allowable_govt_takeover
        overall_flag ==
            IF flag_calamity = "RED" \/ flag_govt = "RED" THEN "RED"
            ELSE IF flag_calamity = "YELLOW" THEN "YELLOW" ELSE "GREEN"
    IN  [heuristic_id       |-> "EXC-01",
         claimed_value      |-> claimed_calamity_rm + claimed_govt_loss_takeover,
         allowable_value    |-> total_allowable,
         flag               |-> overall_flag,
         recommended_amount |-> total_allowable,
         is_primary         |-> TRUE,
         output_type        |-> "discretionary"]
        @@ StaffReviewHandling(staff_name, staff_approved_amount, staff_justification,
                               total_allowable, 1000)

\* interest rates are whole percents; highest_loan_rate is NoAmount for None
heuristic_IFC_LTL_01(opening_normative_loan, gfa_additions, depreciation, opening_interest_rate, claimed_interest, disputed_claims, highest_loan_rate, staff_name, staff_approved_amount, staff_justification) ==
    LET closing_normative_loan == opening_normative_loan + gfa_additions - depreciation
        average_normative_loan == (opening_normative_loan + closing_normative_loan) \div 2
        allowable_interest     == (average_normative_loan * opening_interest_rate) \div 100
        variance_absolute      == claimed_interest - allowable_interest
        \* abs(variance_percentage) > p, the percentage being 0 for a zero allowable
        above(p) == allowable_interest # 0
                    /\ ~AbsPctLe(variance_absolute, allowable_interest, p)
        flag1 == IF disputed_claims > 0 THEN "YELLOW" ELSE "GREEN"
        flag2 == IF above(15) THEN "YELLOW"
                 ELSE IF above(5) THEN "RED"
                 ELSE flag1
        flag  == IF highest_loan_rate # NoAmount /\ highest_loan_rate > 9 /\ flag2 = "GREEN"
                 THEN "YELLOW" ELSE flag2
    IN  [heuristic_id       |-> "IFC-LTL-01",
         claimed_value      |-> claimed_interest,
         allowable_value    |-> allowable_interest,
         flag               |-> flag,
         recommended_amount |-> allowable_interest,
         is_primary         |-> TRUE,
         output_type        |-> "normative"]
        @@ StaffReviewHandling(staff_name, staff_approved_amount, staff_justification,
                               allowable_interest, 100)

\* pay_revision_details is an Optional[Dict]: <<>> for None, else <<dict>>
heuristic_EMP_PAYREV_01(employee_cost_normative, employee_cost_actual, pay_revision_implemented, pay_revision_details) ==
    LET variance_abs == employee_cost_actual - employee_cost_normative
        within(p)    == IF employee_cost_normative > 0
                        THEN AbsPctLe(variance_abs, employee_cost_normative, p) ELSE TRUE
        order_given  == /\ pay_revision_details # <<>>
                        /\ DOMAIN pay_revision_details[1] # {}
                        /\ RGet(pay_revision_details[1], "govt_order_ref", "") # ""
    IN  [heuristic_id       |-> "EMP-PAYREV-01",
         flag               |-> IF ~pay_revision_implemented
                                THEN IF within(5) THEN "GREEN"
                                     ELSE IF within(15) THEN "YELLOW" ELSE "RED"
                                ELSE IF order_given THEN "YELLOW" ELSE "RED",
         recommended_amount |-> NoAmount,
         is_primary         |-> FALSE,
         output_type        |-> "prudence_check"] @@ StaffReviewUnset

\* LineItem_SBUTransfer.run_heuristic builds its record inline: no heuristic,
\* and none of the metadata or Staff Review keys
SBUTransferRecord(source_sbu, approved, claimed) ==
    [heuristic_id       |-> IF source_sbu = "G" THEN "SBU-G-TRANSFER" ELSE "SBU-T-TRANSFER",
     flag               |-> "GREEN",
     claimed_value      |-> claimed,
     recommended_amount |-> approved]

----
\* Line items (Tier 2)

\* LineItemBase.__init__ ; an Optional[Dict] is a sequence of length 0 or 1
LineItemBase(cls, pattern) ==
    [cls               |-> cls,
     pattern           |-> pattern,
     heuristic_result  |-> <<>>,
     heuristic_results |-> <<>>]

_get_all_results(li) ==
    IF li.pattern = "single" THEN li.heuristic_result ELSE li.heuristic_results

\* faulty variant: takes the first record whether or not it is primary
get_primary_heuristic_first_record(li) ==
    LET results == _get_all_results(li)
    IN  IF Len(results) > 0 THEN <<results[1]>> ELSE <<>>

get_primary_heuristic(li) ==
    LET results == _get_all_results(li)
        primary == {i \in 1..Len(results) : RGet(results[i], "is_primary", FALSE)}
    IN  IF primary # {}
        THEN <<results[CHOOSE i \in primary : \A j \in primary : i <= j]>>
        ELSE IF Len(results) > 0 THEN <<results[1]>> ELSE <<>>

\* faulty variant: the reviewer's amount is ignored
StaffOrRecommended_ignores_staff(r) == RGet(r, "recommended_amount", NoAmount)

\* staff_approved_amount if it is not None, else recommended_amount
StaffOrRecommended(r) ==
    IF RGet(r, "staff_approved_amount", NoAmount) # NoAmount
    THEN r.staff_approved_amount
    ELSE RGet(r, "recommended_amount", NoAmount)

\* faulty variant of the loop: is_primary is not tested
RECURSIVE MultiLoop_any_record(_, _)
MultiLoop_any_record(results, n) ==
    IF n = 0 THEN [total |-> 0, has_any |-> FALSE]
    ELSE LET acc == MultiLoop_any_record(results, n - 1)
             r   == results[n]
         IN  IF RGet(r, "output_type", None) = "approved_amount"
             THEN IF RGet(r, "staff_approved_amount", NoAmount) # NoAmount
                  THEN [total |-> acc.total + r.staff_approved_amount, has_any |-> TRUE]
                  ELSE IF RGet(r, "recommended_amount", NoAmount) # NoAmount
                  THEN [total |-> acc.total + r.recommended_amount, has_any |-> TRUE]
                  ELSE acc
             ELSE acc

\* the loop of the multi branch of get_approved_amount over results[1..n]:
\* total and has_any after n iterations
RECURSIVE MultiLoop(_, _)
MultiLoop(results, n) ==
    IF n = 0 THEN [total |-> 0, has_any |-> FALSE]
    ELSE LET acc == MultiLoop(results, n - 1)
             r   == results[n]
         IN  IF RGet(r, "is_primary", FALSE) /\ RGet(r, "output_type", None) = "approved_amount"
             THEN IF RGet(r, "staff_approved_amount", NoAmount) # NoAmount
                  THEN [total |-> acc.total + r.staff_approved_amount, has_any |-> TRUE]
                  ELSE IF RGet(r, "recommended_amount", NoAmount) # NoAmount
                  THEN [total |-> acc.total + r.recommended_amount, has_any |-> TRUE]
                  ELSE acc
             ELSE acc

get_approved_amount(li) ==
    LET results == _get_all_results(li)
        primary == get_primary_heuristic(li)
    IN  IF Len(results) = 0 THEN NoAmount
        ELSE IF li.pattern = "single"
        THEN IF primary = <<>> THEN NoAmount ELSE StaffOrRecommended(primary[1])
        ELSE LET loop == MultiLoop(results, Len(results))
             IN  IF loop.has_any THEN loop.total
                 ELSE IF primary # <<>> THEN StaffOrRecommended(primary[1])
                 ELSE NoAmount

\* staff_override_flag or flag
EffectiveFlag(r) ==
    IF RGet(r, "staff_override_flag", None) # None
    THEN r.staff_override_flag ELSE RGet(r, "flag", None)

get_overall_flag(li) ==
    LET results == _get_all_results(li)
        flags   == {EffectiveFlag(results[i]) : i \in 1..Len(results)} \ {None}
    IN  IF Len(results) = 0 THEN "PENDING"
        ELSE IF flags = {} THEN "PENDING"
        ELSE IF "RED" \in flags THEN "RED"
        ELSE IF "YELLOW" \in flags THEN "YELLOW"
        ELSE "GREEN"

CountStatus(results, status) ==
    Cardinality({i \in 1..Len(results) : RGet(results[i], "staff_review_status", None) = status})

check_review_status(li) ==
    LET results == _get_all_results(li)
        pending == CountStatus(results, "Pending")
    IN  IF Len(results) = 0
        THEN [total |-> 0, pending |-> 0, accepted |-> 0, overridden |-> 0, complete |-> FALSE]
        ELSE [total      |-> Len(results),
              pending    |-> pending,
              accepted   |-> CountStatus(results, "Accepted"),
              overridden |-> CountStatus(results, "Overridden"),
              complete   |-> (pending = 0 /\ Len(results) > 0)]

\* the pattern each LineItem subclass passes to LineItemBase.__init__
ClassPattern(cls) ==
    CASE cls \in {"LineItem_MasterTrust", "LineItem_IFC", "LineItem_OM_Expenses",
                  "LineItem_IFC_D"} -> "multi"
      [] cls = "LineItem_SBUTransfer" -> "none"
      [] OTHER                        -> "single"

\* the keys a run method reads with inputs[...] : a missing one raises KeyError
RequiredKeys(cls) ==
    CASE cls = "LineItem_ROE" -> {"equity_capital", "roe_rate", "claimed_roe"}
      [] cls = "LineItem_NTI" -> {"myt_baseline_nti", "base_income_from_accounts"}
      [] cls = "LineItem_MasterTrust" ->
            {"total_bond_interest", "sbu_allocation_ratio", "claimed_bond_interest_sbu",
             "annual_principal_repayment", "claimed_principal_repayment_sbu",
             "actuarial_liability_current_year", "provisional_cap",
             "claimed_additional_contribution_sbu", "actuarial_report_submitted",
             "govt_approval_obtained"}
      [] OTHER -> {}

\* faulty variant: the review status of the replaced record is carried over
LineItem_ROE_run_heuristic_keeps_status(li, inputs) ==
    LET new == heuristic_ROE_01(inputs.equity_capital, inputs.roe_rate, inputs.claimed_roe,
                                Get(inputs, "equity_infusion_during_year", 0))
    IN  [li EXCEPT !.heuristic_result =
            IF li.heuristic_result = <<>> THEN <<new>>
            ELSE <<[new EXCEPT !.staff_review_status =
                                    li.heuristic_result[1].staff_review_status]>>]

LineItem_ROE_run_heuristic(li, inputs) ==
    [li EXCEPT !.heuristic_result =
        <<heuristic_ROE_01(inputs.equity_capital, inputs.roe_rate, inputs.claimed_roe,
                           Get(inputs, "equity_infusion_during_year", 0))>>]

LineItem_NTI_run_heuristic(li, inputs) ==
    [li EXCEPT !.heuristic_result =
        <<heuristic_NTI_01(inputs.myt_baseline_nti, inputs.base_income_from_accounts,
                           Get(inputs, "exclusion_grant_clawback", 0),
                           Get(inputs, "exclusion_led_bulbs", 0),
                           Get(inputs, "exclusion_nilaavu_scheme", 0),
                           Get(inputs, "exclusion_provision_reversals", 0),
                           Get(inputs, "exclusion_kwa_unrealized", 0),
                           Get(inputs, "addition_kwa_arrears_released", 0),
                           Get(inputs, "other_exclusions", 0),
                           Get(inputs, "other_additions", 0),
                           Get(inputs, "claimed_nti", 0))>>]

LineItem_MasterTrust_run_all_heuristics(li, inputs) ==
    [li EXCEPT !.heuristic_results =
        << heuristic_MT_BOND_01(inputs.total_bond_interest, inputs.sbu_allocation_ratio,
                                inputs.claimed_bond_interest_sbu, "", NoAmount, ""),
           heuristic_MT_REPAY_01(inputs.annual_principal_repayment, inputs.sbu_allocation_ratio,
                                 inputs.claimed_principal_repayment_sbu, "", NoAmount, ""),
           heuristic_MT_ADD_01(inputs.actuarial_liability_current_year, inputs.provisional_cap,
                               inputs.sbu_allocation_ratio,
                               inputs.claimed_additional_contribution_sbu,
                               inputs.actuarial_report_submitted, inputs.govt_approval_obtained,
                               "", NoAmount, "") >>]

LineItem_MTAdditional_run_heuristic(li, inputs) ==
    [li EXCEPT !.heuristic_result =
        <<heuristic_MT_ADD_01(Get(inputs, "actuarial_liability_current_year", 0),
                              Get(inputs, "provisional_cap", 0),
                              Get(inputs, "sbu_allocation_ratio", 1),
                              Get(inputs, "claimed_additional_contribution_sbu", 3334200),
                              Get(inputs, "actuarial_report_submitted", TRUE),
                              Get(inputs, "govt_approval_obtained", TRUE),
                              "", NoAmount, "")>>]

LineItem_PayRevision_run_heuristic(li, inputs) ==
    [li EXCEPT !.heuristic_result =
        <<heuristic_EMP_PAYREV_01(Get(inputs, "normative_employee_cost", 0),
                                  Get(inputs, "actual_employee_cost", 0),
                                  Get(inputs, "pay_revision", FALSE),
                                  Get(inputs, "pay_revision_details", <<>>))>>]

LineItem_SBUTransfer_run_heuristic(li, source_sbu, inputs) ==
    [li EXCEPT !.heuristic_result =
        <<SBUTransferRecord(source_sbu, Get(inputs, "approved_amount", 0),
                            Get(inputs, "claimed_amount", 0))>>]

\* run_heuristic / run_all_heuristics of the line item stored under key
Run(key, li, inputs) ==
    CASE li.cls = "LineItem_ROE"          -> LineItem_ROE_run_heuristic(li, inputs)
      [] li.cls = "LineItem_NTI"          -> LineItem_NTI_run_heuristic(li, inputs)
      [] li.cls = "LineItem_MasterTrust"  -> LineItem_MasterTrust_run_all_heuristics(li, inputs)
      [] li.cls = "LineItem_MTAdditional" -> LineItem_MTAdditional_run_heuristic(li, inputs)
      [] li.cls = "LineItem_PayRevision"  -> LineItem_PayRevision_run_heuristic(li, inputs)
      [] li.cls = "LineItem_SBUTransfer"  ->
            LineItem_SBUTransfer_run_heuristic(
                li, IF key = "sbu_g_transfer" THEN "G" ELSE "T", inputs)

----
\* Business units (Tier 3)

SBU_G_CONFIG ==
    << [key |-> "fuel_costs",        is_expense |-> TRUE,  cls |-> "LineItem_FuelCosts"],
       [key |-> "om_expenses",       is_expense |-> TRUE,  cls |-> "LineItem_OM_Expenses"],
       [key |-> "roe",               is_expense |-> TRUE,  cls |-> "LineItem_ROE"],
       [key |-> "depreciation",      is_expense |-> TRUE,  cls |-> "LineItem_Depreciation"],
       [key |-> "ifc",               is_expense |-> TRUE,  cls |-> "LineItem_IFC"],
       [key |-> "master_trust",      is_expense |-> TRUE,  cls |-> "LineItem_MasterTrust"],
       [key |-> "other_expenses",    is_expense |-> TRUE,  cls |-> "LineItem_OtherExpenses"],
       [key |-> "exceptional_items", is_expense |-> TRUE,  cls |-> "LineItem_ExceptionalItems"],
       [key |-> "intangible_assets", is_expense |-> TRUE,  cls |-> "LineItem_IntangibleAssets"],
       [key |-> "nti",               is_expense |-> FALSE, cls |-> "LineItem_NTI"] >>

SBU_T_CONFIG ==
    << [key |-> "om_expenses",           is_expense |-> TRUE,  cls |-> "LineItem_TransOM"],
       [key |-> "roe",                   is_expense |-> TRUE,  cls |-> "LineItem_ROE"],
       [key |-> "depreciation",          is_expense |-> TRUE,  cls |-> "LineItem_Depreciation"],
       [key |-> "ifc",                   is_expense |-> TRUE,  cls |-> "LineItem_IFC"],
       [key |-> "master_trust",          is_expense |-> TRUE,  cls |-> "LineItem_MasterTrust"],
       [key |-> "edamon_kochi_comp",     is_expense |-> TRUE,  cls |-> "LineItem_TransComp"],
       [key |-> "pugalur_thrissur_comp", is_expense |-> TRUE,  cls |-> "LineItem_TransComp"],
       [key |-> "intangible_assets",     is_expense |-> TRUE,  cls |-> "LineItem_IntangibleAssets"],
       [key |-> "other_expenses",        is_expense |-> TRUE,  cls |-> "LineItem_OtherExpenses"],
       [key |-> "exceptional_items",     is_expense |-> TRUE,  cls |-> "LineItem_ExceptionalItems"],
       [key |-> "trans_incentive",       is_expense |-> TRUE,  cls |-> "LineItem_TransIncentive"],
       [key |-> "nti",                   is_expense |-> FALSE, cls |-> "LineItem_NTI"] >>

SBU_D_CONFIG ==
    << [key |-> "sbu_g_transfer",    is_expense |-> TRUE,  cls |-> "LineItem_SBUTransfer"],
       [key |-> "power_purchase",    is_expense |-> TRUE,  cls |-> "LineItem_PowerPurchase"],
       [key |-> "sbu_t_transfer",    is_expense |-> TRUE,  cls |-> "LineItem_SBUTransfer"],
       [key |-> "ifc",               is_expense |-> TRUE,  cls |-> "LineItem_IFC_D"],
       [key |-> "mt_additional",     is_expense |-> TRUE,  cls |-> "LineItem_MTAdditional"],
       [key |-> "depreciation",      is_expense |-> TRUE,  cls |-> "LineItem_Depreciation"],
       [key |-> "om_expenses",       is_expense |-> TRUE,  cls |-> "LineItem_DistOM"],
       [key |-> "pay_revision",      is_expense |-> TRUE,  cls |-> "LineItem_PayRevision"],
       [key |-> "roe",               is_expense |-> TRUE,  cls |-> "LineItem_ROE"],
       [key |-> "other_expenses",    is_expense |-> TRUE,  cls |-> "LineItem_OtherExpenses"],
       [key |-> "exceptional_items", is_expense |-> TRUE,  cls |-> "LineItem_ExceptionalItems"],
       [key |-> "td_loss_sharing",   is_expense |-> TRUE,  cls |-> "LineItem_TDLossSharing"],
       [key |-> "intangible_assets", is_expense |-> TRUE,  cls |-> "LineItem_IntangibleAssets"],
       [key |-> "bond_repayment",    is_expense |-> TRUE,  cls |-> "LineItem_MTBondRepayment"],
       [key |-> "nti",               is_expense |-> FALSE, cls |-> "LineItem_NTI"] >>

get_sbu_config(sbu_code) ==
    CASE sbu_code = "G" -> SBU_G_CONFIG
      [] sbu_code = "T" -> SBU_T_CONFIG
      [] sbu_code = "D" -> SBU_D_CONFIG

ConfigEntry(sbu_code, key) ==
    LET cfg == get_sbu_config(sbu_code)
    IN  cfg[CHOOSE i \in 1..Len(cfg) : cfg[i].key = key]

\* the part of each unit's roster that is explored: every unit keeps the line
\* items named here and the aggregator ranges over exactly these
Scopes ==
    { [sbu |-> "G", keys |-> {"roe", "nti"}],
      [sbu |-> "T", keys |-> {"master_trust"}],
      [sbu |-> "D", keys |-> {"sbu_g_transfer", "mt_additional", "pay_revision"}] }

create_line_items_for_sbu(sbu_code, keys) ==
    [k \in keys |->
        LET cls == ConfigEntry(sbu_code, k).cls IN LineItemBase(cls, ClassPattern(cls))]

\* the signed sum of calculate_total_arr over the given keys
RECURSIVE SignedSum(_, _, _)
SignedSum(sbu_code, its, keys) ==
    IF keys = {} THEN 0
    ELSE LET key      == CHOOSE k \in keys : TRUE
             approved == get_approved_amount(its[key])
             rest     == SignedSum(sbu_code, its, keys \ {key})
         IN  IF approved # NoAmount
             THEN IF ConfigEntry(sbu_code, key).is_expense
                  THEN rest + approved ELSE rest - approved
             ELSE rest

\* faulty variant: every resolved amount is added, whatever is_expense says
RECURSIVE UnsignedSum(_, _)
UnsignedSum(its, keys) ==
    IF keys = {} THEN 0
    ELSE LET key      == CHOOSE k \in keys : TRUE
             approved == get_approved_amount(its[key])
         IN  UnsignedSum(its, keys \ {key}) + (IF approved # NoAmount THEN approved ELSE 0)

calculate_total_arr_unsigned(sbu_code, its) == Round2(UnsignedSum(its, DOMAIN its))

calculate_total_arr(sbu_code, its) == Round2(SignedSum(sbu_code, its, DOMAIN its))

\* faulty variant: a line item without records does not hold the unit back
check_aggregation_ready_no_pending(its) ==
    [ready_for_aggregation |-> \A key \in DOMAIN its : check_review_status(its[key]).pending = 0,
     line_item_statuses    |-> [key \in DOMAIN its |-> check_review_status(its[key])]]

check_aggregation_ready(its) ==
    [ready_for_aggregation |-> \A key \in DOMAIN its : check_review_status(its[key]).complete,
     line_item_statuses    |-> [key \in DOMAIN its |-> check_review_status(its[key])]]

\* the display name each LineItem subclass passes to LineItemBase.__init__
line_item_name(key, li) ==
    CASE li.cls = "LineItem_ROE"          -> "Return on Equity"
      [] li.cls = "LineItem_NTI"          -> "Non-Tariff Income"
      [] li.cls = "LineItem_MasterTrust"  -> "Master Trust Obligations"
      [] li.cls = "LineItem_MTAdditional" -> "Additional Contribution to Master Trust"
      [] li.cls = "LineItem_PayRevision"  -> "Pay Revision Arrears"
      [] li.cls = "LineItem_SBUTransfer"  ->
            IF key = "sbu_g_transfer" THEN "Transfer from SBU-G" ELSE "Transfer from SBU-T"
      [] OTHER                            -> li.cls

get_summary(key, li) ==
    [line_item_name    |-> line_item_name(key, li),
     heuristic_count   |-> Len(_get_all_results(li)),
     heuristic_results |-> _get_all_results(li),
     approved_amount   |-> get_approved_amount(li),
     overall_flag      |-> get_overall_flag(li),
     review_status     |-> check_review_status(li),
     primary_heuristic |-> get_primary_heuristic(li)]

\* self.line_items.items(): the keys in the order the factory inserted them,
\* which is the order of the unit's roster
RECURSIVE KeysInOrder(_, _)
KeysInOrder(cfg, its) ==
    IF cfg = <<>> THEN <<>>
    ELSE IF Head(cfg).key \in DOMAIN its
         THEN <<Head(cfg).key>> \o KeysInOrder(Tail(cfg), its)
         ELSE KeysInOrder(Tail(cfg), its)

\* get_sbu_summary of SBU_Base; it calls check_aggregation_ready and
\* calculate_total_arr, so the two cached attributes are fresh in its result.
\* SBU_Transmission and SBU_Distribution append their loss metrics, which
\* stay at their constructor values here (the loss heuristics are not run).
get_sbu_summary(sbu_code, its) ==
    [sbu_code             |-> sbu_code,
     line_items           |-> [key \in DOMAIN its |-> get_summary(key, its[key])],
     total_arr            |-> calculate_total_arr(sbu_code, its),
     aggregation_status   |-> check_aggregation_ready(its),
     aggregation_complete |-> check_aggregation_ready(its).ready_for_aggregation]
    @@ (CASE sbu_code = "T" -> [td_loss_results |-> <<>>, td_loss_count |-> 0]
          [] sbu_code = "D" -> [dist_loss_result |-> None, td_gain_sharing_result |-> None]
          [] OTHER          -> <<>>)

\* heuristic.get('staff_approved_amount') or heuristic.get('recommended_amount'):
\* `or` passes over None and over 0.0
StaffAmountOrRecommended(heuristic) ==
    IF RGet(heuristic, "staff_approved_amount", NoAmount) \notin {NoAmount, 0}
    THEN heuristic.staff_approved_amount
    ELSE RGet(heuristic, "recommended_amount", NoAmount)

\* one entry of line_detail['heuristics'] in get_drill_down_data
heur_detail(heuristic) ==
    [id              |-> heuristic.heuristic_id,
     flag            |-> EffectiveFlag(heuristic),
     is_primary      |-> heuristic.is_primary,
     review_status   |-> heuristic.staff_review_status,
     reviewed_by     |-> RGet(heuristic, "reviewed_by", None),
     reviewed_at     |-> RGet(heuristic, "reviewed_at", None),
     approved_amount |-> StaffAmountOrRecommended(heuristic)]

line_detail(key, li) ==
    LET summary == get_summary(key, li)
    IN  [key             |-> key,
         name            |-> summary.line_item_name,
         approved_amount |-> summary.approved_amount,
         overall_flag    |-> summary.overall_flag,
         review_status   |-> summary.review_status,
         heuristics      |-> [i \in 1..Len(summary.heuristic_results) |->
                                 heur_detail(summary.heuristic_results[i])]]

\* get_drill_down_data: total_arr is the cached attribute self.total_arr
get_drill_down_data(sbu_code, its, cached_total_arr) ==
    LET keys == KeysInOrder(get_sbu_config(sbu_code), its)
    IN  [total_arr         |-> cached_total_arr,
         line_items_detail |-> [n \in 1..Len(keys) |-> line_detail(keys[n], its[keys[n]])]]

\* the entries get_pending_reviews appends for one line item
PendingOf(key, li) ==
    LET summary == get_summary(key, li)
        entry(heuristic) == [line_item    |-> summary.line_item_name,
                             heuristic_id |-> heuristic.heuristic_id,
                             flag         |-> heuristic.flag,
                             is_primary   |-> heuristic.is_primary]
    IN  [n \in 1..Len(SelectSeq(summary.heuristic_results,
                                LAMBDA h : RGet(h, "staff_review_status", None) = "Pending")) |->
            entry(SelectSeq(summary.heuristic_results,
                                LAMBDA h : RGet(h, "staff_review_status", None) = "Pending")[n])]

RECURSIVE PendingFrom(_, _)
PendingFrom(keys, its) ==
    IF keys = <<>> THEN <<>>
    ELSE PendingOf(Head(keys), its[Head(keys)]) \o PendingFrom(Tail(keys), its)

get_pending_reviews(sbu_code, its) ==
    PendingFrom(KeysInOrder(get_sbu_config(sbu_code), its), its)

\* export_to_dict: total_arr and aggregation_complete are the cached
\* attributes of the unit
export_to_dict(sbu_code, its, cached_total_arr, cached_aggregation_complete) ==
    [sbu_code             |-> sbu_code,
     total_arr            |-> cached_total_arr,
     aggregation_complete |-> cached_aggregation_complete,
     line_items           |-> [key \in DOMAIN its |-> get_summary(key, its[key])]]

----
\* Staff review action (app.py, render_staff_review)

\* the radio options offered for a record
ReviewOptions(result) ==
    IF RGet(result, "is_primary", TRUE)
    THEN {"Accept", "Override Flag", "Override Amount"}
    ELSE {"Accept", "Add Remarks"}

\* variant of render_staff_review: Override Amount stores the amount before
\* it looks at the name and the justification
render_staff_review_writes_before_check(result, review_option, staff_name, new_flag, new_amount, text) ==
    CASE review_option = "Accept" ->
            IF staff_name # ""
            THEN [result EXCEPT !.staff_review_status = "Accepted",
                                !.reviewed_by = staff_name,
                                !.reviewed_at = Now]
            ELSE result
      [] review_option = "Override Flag" ->
            IF staff_name # "" /\ text # ""
            THEN [result EXCEPT !.staff_override_flag = new_flag,
                                !.staff_justification = text,
                                !.staff_review_status = "Overridden",
                                !.reviewed_by = staff_name,
                                !.reviewed_at = Now]
            ELSE result
      [] review_option = "Override Amount" ->
            IF staff_name # "" /\ text # ""
            THEN [result EXCEPT !.staff_approved_amount = new_amount,
                                !.staff_justification = text,
                                !.staff_review_status = "Overridden",
                                !.reviewed_by = staff_name,
                                !.reviewed_at = Now]
            ELSE [result EXCEPT !.staff_approved_amount = new_amount]
      [] review_option = "Add Remarks" ->
            IF staff_name # ""
            THEN [result EXCEPT !.staff_justification = text,
                                !.staff_review_status = "Accepted",
                                !.reviewed_by = staff_name,
                                !.reviewed_at = Now]
            ELSE result

\* variant of render_staff_review: Accept sets the status and the reviewer
\* but not the time of the review
render_staff_review_accept_without_time(result, review_option, staff_name, new_flag, new_amount, text) ==
    CASE review_option = "Accept" ->
            IF staff_name # ""
            THEN [result EXCEPT !.staff_review_status = "Accepted",
                                !.reviewed_by = staff_name]
            ELSE result
      [] review_option = "Override Flag" ->
            IF staff_name # "" /\ text # ""
            THEN [result EXCEPT !.staff_override_flag = new_flag,
                                !.staff_justification = text,
                                !.staff_review_status = "Overridden",
                                !.reviewed_by = staff_name,
                                !.reviewed_at = Now]
            ELSE result
      [] review_option = "Override Amount" ->
            IF staff_name # "" /\ text # ""
            THEN [result EXCEPT !.staff_approved_amount = new_amount,
                                !.staff_justification = text,
                                !.staff_review_status = "Overridden",
                                !.reviewed_by = staff_name,
                                !.reviewed_at = Now]
            ELSE result
      [] review_option = "Add Remarks" ->
            IF staff_name # ""
            THEN [result EXCEPT !.staff_justification = text,
                                !.staff_review_status = "Accepted",
                                !.reviewed_by = staff_name,
                                !.reviewed_at = Now]
            ELSE result

\* variant of render_staff_review: Accept clears the two override fields
render_staff_review_accept_clears(result, review_option, staff_name, new_flag, new_amount, text) ==
    CASE review_option = "Accept" ->
            IF staff_name # ""
            THEN [result EXCEPT !.staff_review_status = "Accepted",
                                !.staff_override_flag = None,
                                !.staff_approved_amount = NoAmount,
                                !.reviewed_by = staff_name,
                                !.reviewed_at = Now]
            ELSE result
      [] review_option = "Override Flag" ->
            IF staff_name # "" /\ text # ""
            THEN [result EXCEPT !.staff_override_flag = new_flag,
                                !.staff_justification = text,
                                !.staff_review_status = "Overridden",
                                !.reviewed_by = staff_name,
                                !.reviewed_at = Now]
            ELSE result
      [] review_option = "Override Amount" ->
            IF staff_name # "" /\ text # ""
            THEN [result EXCEPT !.staff_approved_amount = new_amount,
                                !.staff_justification = text,
                                !.staff_review_status = "Overridden",
                                !.reviewed_by = staff_name,
                                !.reviewed_at = Now]
            ELSE result
      [] review_option = "Add Remarks" ->
            IF staff_name # ""
            THEN [result EXCEPT !.staff_justification = text,
                                !.staff_review_status = "Accepted",
                                !.reviewed_by = staff_name,
                                !.reviewed_at = Now]
            ELSE result

\* the record after the button of the chosen option is pressed
render_staff_review(result, review_option, staff_name, new_flag, new_amount, text) ==
    CASE review_option = "Accept" ->
            IF staff_name # ""
            THEN [result EXCEPT !.staff_review_status = "Accepted",
                                !.reviewed_by = staff_name,
                                !.reviewed_at = Now]
            ELSE result
      [] review_option = "Override Flag" ->
            IF staff_name # "" /\ text # ""
            THEN [result EXCEPT !.staff_override_flag = new_flag,
                                !.staff_justification = text,
                                !.staff_review_status = "Overridden",
                                !.reviewed_by = staff_name,
                                !.reviewed_at = Now]
            ELSE result
      [] review_option = "Override Amount" ->
            IF staff_name # "" /\ text # ""
            THEN [result EXCEPT !.staff_approved_amount = new_amount,
                                !.staff_justification = text,
                                !.staff_review_status = "Overridden",
                                !.reviewed_by = staff_name,
                                !.reviewed_at = Now]
            ELSE result
      [] review_option = "Add Remarks" ->
            IF staff_name # ""
            THEN [result EXCEPT !.staff_justification = text,
                                !.staff_review_status = "Accepted",
                                !.reviewed_by = staff_name,
                                !.reviewed_at = Now]
            ELSE result

\* whether the form passes the check in front of the mutation
ReviewFormValid(review_option, staff_name, text) ==
    IF review_option \in {"Override Flag", "Override Amount"}
    THEN staff_name # "" /\ text # ""
    ELSE staff_name # ""

\* the line item with record idx of its result list replaced (the review
\* mutates the dict held by the line item in place)
WithResult(li, idx, result) ==
    IF li.pattern = "single"
    THEN [li EXCEPT !.heuristic_result = <<result>>]
    ELSE [li EXCEPT !.heuristic_results[idx] = result]

----
\* Inputs supplied by the forms

ROE_Inputs ==
    { [equity_capital |-> 8312700, roe_rate |-> 14, claimed_roe |-> 1163800],
      [equity_capital |-> 1000000, roe_rate |-> 14] }

NTI_Inputs ==
    { [myt_baseline_nti |-> 200000, base_income_from_accounts |-> 250000,
       exclusion_grant_clawback |-> 50000, claimed_nti |-> 250000] }

MasterTrust_Inputs ==
    { [total_bond_interest |-> 1000000, sbu_allocation_ratio |-> 10,
       claimed_bond_interest_sbu |-> 100000,
       annual_principal_repayment |-> 500000, claimed_principal_repayment_sbu |-> 60000,
       actuarial_liability_current_year |-> 3000000, provisional_cap |-> 2000000,
       claimed_additional_contribution_sbu |-> 300000,
       actuarial_report_submitted |-> FALSE, govt_approval_obtained |-> FALSE] }

MTAdditional_Inputs ==
    { [actuarial_liability_current_year |-> 3000000, provisional_cap |-> 2000000,
       sbu_allocation_ratio |-> 100, claimed_additional_contribution_sbu |-> 3000000,
       actuarial_report_submitted |-> TRUE, govt_approval_obtained |-> FALSE] }

PayRevision_Inputs ==
    { [normative_employee_cost |-> 1000000, actual_employee_cost |-> 1079300] }

SBUTransfer_Inputs ==
    { [approved_amount |-> 5987000, claimed_amount |-> 5987000] }

InputsFor(cls) ==
    CASE cls = "LineItem_ROE"          -> ROE_Inputs
      [] cls = "LineItem_NTI"          -> NTI_Inputs
      [] cls = "LineItem_MasterTrust"  -> MasterTrust_Inputs
      [] cls = "LineItem_MTAdditional" -> MTAdditional_Inputs
      [] cls = "LineItem_PayRevision"  -> PayRevision_Inputs
      [] cls = "LineItem_SBUTransfer"  -> SBUTransfer_Inputs

----
\* The session: one business unit, evaluated, reviewed and queried

Init ==
    \E sc \in Scopes :
        /\ sbu = sc.sbu
        /\ items = create_line_items_for_sbu(sc.sbu, sc.keys)
        /\ total_arr = 0
        /\ aggregation_complete = FALSE
        /\ ret = [op |-> "create_sbu"]
        /\ reviews = 0

\* line_item.run_heuristic(inputs) / line_item.run_all_heuristics(inputs)
Evaluate(key, inputs) ==
    /\ IF RequiredKeys(items[key].cls) \subseteq DOMAIN inputs
       THEN /\ items' = [items EXCEPT ![key] = Run(key, items[key], inputs)]
            /\ ret' = [op |-> "evaluate", key |-> key, raised |-> FALSE]
       ELSE /\ items' = items
            /\ ret' = [op |-> "evaluate", key |-> key, raised |-> TRUE]
    /\ UNCHANGED <<sbu, total_arr, aggregation_complete, reviews>>

\* one press of a review button on record idx of the line item
Review(key, idx, review_option, staff_name, new_flag, new_amount, text) ==
    LET li     == items[key]
        result == _get_all_results(li)[idx]
        valid  == ReviewFormValid(review_option, staff_name, text)
    IN  /\ review_option \in ReviewOptions(result)
        /\ valid => reviews < MaxReviews
        /\ items' = [items EXCEPT ![key] =
                        WithResult(li, idx, render_staff_review(result, review_option,
                                       staff_name, new_flag, new_amount, text))]
        /\ reviews' = IF valid THEN reviews + 1 ELSE reviews
        /\ ret' = [op |-> "review", accepted |-> valid]
        /\ UNCHANGED <<sbu, total_arr, aggregation_complete>>

Accept(key, idx) ==
    \E staff_name \in StaffNames :
        Review(key, idx, "Accept", staff_name, None, NoAmount, "")

OverrideFlag(key, idx) ==
    \E staff_name \in StaffNames, new_flag \in NewFlags, justification \in Justifications :
        Review(key, idx, "Override Flag", staff_name, new_flag, NoAmount, justification)

OverrideAmount(key, idx) ==
    \E staff_name \in StaffNames, new_amount \in NewAmounts, justification \in Justifications :
        Review(key, idx, "Override Amount", staff_name, None, new_amount, justification)

AddRemarks(key, idx) ==
    \E staff_name \in StaffNames, remarks \in Justifications :
        Review(key, idx, "Add Remarks", staff_name, None, NoAmount, remarks)

GetApprovedAmount(key) ==
    /\ ret' = [op |-> "get_approved_amount", key |-> key,
               value |-> get_approved_amount(items[key])]
    /\ UNCHANGED <<sbu, items, total_arr, aggregation_complete, reviews>>

GetOverallFlag(key) ==
    /\ ret' = [op |-> "get_overall_flag", key |-> key,
               value |-> get_overall_flag(items[key])]
    /\ UNCHANGED <<sbu, items, total_arr, aggregation_complete, reviews>>

CheckReviewStatus(key) ==
    /\ ret' = [op |-> "check_review_status", key |-> key,
               value |-> check_review_status(items[key])]
    /\ UNCHANGED <<sbu, items, total_arr, aggregation_complete, reviews>>

CalculateTotalArr ==
    /\ total_arr' = calculate_total_arr(sbu, items)
    /\ ret' = [op |-> "calculate_total_arr", value |-> total_arr']
    /\ UNCHANGED <<sbu, items, aggregation_complete, reviews>>

CheckAggregationReady ==
    /\ aggregation_complete' = check_aggregation_ready(items).ready_for_aggregation
    /\ ret' = [op |-> "check_aggregation_ready", value |-> check_aggregation_ready(items)]
    /\ UNCHANGED <<sbu, items, total_arr, reviews>>

GetSbuSummary ==
    /\ total_arr' = calculate_total_arr(sbu, items)
    /\ aggregation_complete' = check_aggregation_ready(items).ready_for_aggregation
    /\ ret' = [op |-> "get_sbu_summary", value |-> get_sbu_summary(sbu, items)]
    /\ UNCHANGED <<sbu, items, reviews>>

GetDrillDownData ==
    /\ ret' = [op |-> "get_drill_down_data",
               value |-> get_drill_down_data(sbu, items, total_arr)]
    /\ UNCHANGED <<sbu, items, total_arr, aggregation_complete, reviews>>

GetPendingReviews ==
    /\ ret' = [op |-> "get_pending_reviews", value |-> get_pending_reviews(sbu, items)]
    /\ UNCHANGED <<sbu, items, total_arr, aggregation_complete, reviews>>

ExportToDict ==
    /\ ret' = [op |-> "export_to_dict",
               value |-> export_to_dict(sbu, items, total_arr, aggregation_complete)]
    /\ UNCHANGED <<sbu, items, total_arr, aggregation_complete, reviews>>

Next ==
    \/ \E key \in DOMAIN items : \E inputs \in InputsFor(items[key].cls) : Evaluate(key, inputs)
    \/ \E key \in DOMAIN items : \E idx \in 1..Len(_get_all_results(items[key])) :
          Accept(key, idx)
    \/ \E key \in DOMAIN items : \E idx \in 1..Len(_get_all_results(items[key])) :
          OverrideFlag(key, idx)
    \/ \E key \in DOMAIN items : \E idx \in 1..Len(_get_all_results(items[key])) :
          OverrideAmount(key, idx)
    \/ \E key \in DOMAIN items : \E idx \in 1..Len(_get_all_results(items[key])) :
          AddRemarks(key, idx)
    \/ \E key \in DOMAIN items : GetApprovedAmount(key)
    \/ \E key \in DOMAIN items : GetOverallFlag(key)
    \/ \E key \in DOMAIN items : CheckReviewStatus(key)
    \/ CalculateTotalArr
    \/ CheckAggregationReady
    \/ GetSbuSummary
    \/ GetDrillDownData
    \/ GetPendingReviews
    \/ ExportToDict

Spec == Init /\ [][Next]_vars

----
\* A multi-pattern line item on its own: amount resolution over any ordered
\* list of records that run_all_heuristics may have stored

\* longest record list explored
MaxLen == 3

\* a freshly produced record of a heuristic, all Staff Review fields unset
FreshRecord(heuristic_id, is_primary, output_type, recommended_amount) ==
    [heuristic_id       |-> heuristic_id,
     flag               |-> "GREEN",
     recommended_amount |-> recommended_amount,
     is_primary         |-> is_primary,
     output_type        |-> output_type] @@ StaffReviewUnset

RecordKinds ==
    { FreshRecord("A", TRUE,  "approved_amount", 100000),
      FreshRecord("B", TRUE,  "approved_amount", 50000),
      FreshRecord("C", FALSE, "assessment",      30000),
      FreshRecord("N", FALSE, "approved_amount", 40000),
      FreshRecord("P", TRUE,  "pass_through",    20000) }

RECURSIVE RecordLists(_)
RecordLists(n) ==
    IF n = 0 THEN {<<>>}
    ELSE LET shorter == RecordLists(n - 1)
         IN  shorter \cup {Append(l, r) : l \in {x \in shorter : Len(x) = n - 1},
                                           r \in RecordKinds}

InitBase ==
    \E results \in RecordLists(MaxLen) :
        /\ sbu = "G"
        /\ items = [key \in {"line_item"} |->
                       [LineItemBase("LineItemBase", "multi")
                            EXCEPT !.heuristic_results = results]]
        /\ total_arr = 0
        /\ aggregation_complete = FALSE
        /\ ret = [op |-> "run_all_heuristics"]
        /\ reviews = 0

NextBase ==
    \/ \E key \in DOMAIN items : \E idx \in 1..Len(_get_all_results(items[key])) :
          OverrideAmount(key, idx)
    \/ \E key \in DOMAIN items : GetApprovedAmount(key)

SpecBase == InitBase /\ [][NextBase]_vars

----
\* The heuristics on their own: each is a pure function of its arguments, and
\* a call returns its record to the caller

\* largest variance, in whole percents of the allowable interest, of the
\* interest claims explored for IFC-LTL-01
MaxVariancePct == 20

TRANS_INCENT_01_Args ==
    [target_availability     : {9850},
     actual_availability     : {9800, 9850, 9900},
     sldc_certified          : BOOLEAN,
     arr_excluding_incentive : {10000000},
     claimed_incentive       : {0, 100000},
     unbridged_revenue_gap   : {0, 64083700},
     revenue_gap_threshold   : {50000000}]

INTANG_01_Args ==
    [software_amortization_claimed          : {0, 50000},
     software_supporting_docs_provided      : BOOLEAN,
     software_employees_additional_to_norms : BOOLEAN,
     other_intangibles_amortization         : {0, 20000},
     other_supporting_docs_provided         : BOOLEAN]

EXC_01_Args ==
    [claimed_calamity_rm        : {0, 100000},
     claimed_govt_loss_takeover : {-7677200, -1, 0, 1, 500000},
     separate_account_code      : BOOLEAN,
     calamity_supporting_docs   : BOOLEAN]

\* an opening loan of 100 Cr at 10%: the allowable interest is 10 Cr when the
\* additions equal the depreciation, and the claims step through it by 1%
IFC_LTL_01_Args ==
    [opening_normative_loan : {1000000},
     gfa_additions          : {0, 200000},
     depreciation           : {0, 200000},
     opening_interest_rate  : {10},
     claimed_interest       : {100000 + k * 1000 : k \in (0 - MaxVariancePct)..MaxVariancePct},
     disputed_claims        : {0, 10000},
     highest_loan_rate      : {NoAmount, 8, 10}]

MT_ADD_01_Args ==
    [actuarial_liability_current_year    : {1000000, 3000000},
     provisional_cap                     : {2000000},
     sbu_allocation_ratio                : {10, 100},
     claimed_additional_contribution_sbu : {300000},
     actuarial_report_submitted          : BOOLEAN,
     govt_approval_obtained              : BOOLEAN]

InitHeur ==
    /\ sbu = "G"
    /\ items = <<>>
    /\ total_arr = 0
    /\ aggregation_complete = FALSE
    /\ ret = [op |-> "import"]
    /\ reviews = 0

Call_TRANS_INCENT_01 ==
    /\ \E a \in TRANS_INCENT_01_Args :
          ret' = [op |-> "heuristic_TRANS_INCENT_01", args |-> a,
                  result |-> heuristic_TRANS_INCENT_01(
                      a.target_availability, a.actual_availability, a.sldc_certified,
                      a.arr_excluding_incentive, a.claimed_incentive,
                      a.unbridged_revenue_gap, a.revenue_gap_threshold)]
    /\ UNCHANGED <<sbu, items, total_arr, aggregation_complete, reviews>>

\* the claimed total is the sum of the two amortizations claimed
Call_INTANG_01 ==
    /\ \E a \in INTANG_01_Args :
          ret' = [op |-> "heuristic_INTANG_01", args |-> a,
                  result |-> heuristic_INTANG_01(
                      0, a.software_amortization_claimed,
                      a.software_supporting_docs_provided,
                      a.software_employees_additional_to_norms, 0, 0, 0,
                      a.other_intangibles_amortization, a.other_supporting_docs_provided,
                      a.software_amortization_claimed + a.other_intangibles_amortization,
                      0)]
    /\ UNCHANGED <<sbu, items, total_arr, aggregation_complete, reviews>>

Call_EXC_01 ==
    /\ \E a \in EXC_01_Args :
          ret' = [op |-> "heuristic_EXC_01", args |-> a,
                  result |-> heuristic_EXC_01(
                      a.claimed_calamity_rm, a.claimed_govt_loss_takeover,
                      a.separate_account_code, a.calamity_supporting_docs,
                      "", NoAmount, "")]
    /\ UNCHANGED <<sbu, items, total_arr, aggregation_complete, reviews>>

Call_IFC_LTL_01 ==
    /\ \E a \in IFC_LTL_01_Args :
          ret' = [op |-> "heuristic_IFC_LTL_01", args |-> a,
                  result |-> heuristic_IFC_LTL_01(
                      a.opening_normative_loan, a.gfa_additions, a.depreciation,
                      a.opening_interest_rate, a.claimed_interest, a.disputed_claims,
                      a.highest_loan_rate, "", NoAmount, "")]
    /\ UNCHANGED <<sbu, items, total_arr, aggregation_complete, reviews>>

Call_MT_ADD_01 ==
    /\ \E a \in MT_ADD_01_Args :
          ret' = [op |-> "heuristic_MT_ADD_01", args |-> a,
                  result |-> heuristic_MT_ADD_01(
                      a.actuarial_liability_current_year, a.provisional_cap,
                      a.sbu_allocation_ratio, a.claimed_additional_contribution_sbu,
                      a.actuarial_report_submitted, a.govt_approval_obtained,
                      "", NoAmount, "")]
    /\ UNCHANGED <<sbu, items, total_arr, aggregation_complete, reviews>>

NextHeur ==
    \/ Call_TRANS_INCENT_01
    \/ Call_INTANG_01
    \/ Call_EXC_01
    \/ Call_IFC_LTL_01
    \/ Call_MT_ADD_01

SpecHeur == InitHeur /\ [][NextHeur]_vars

----
\* Evaluation with incomplete input dictionaries

\* number of keys left out of an input dictionary
MaxDropped == 1

\* the input keys a run method passes to parameters that the heuristic
\* declares without default
HeuristicRequiredKeys(cls) ==
    CASE cls = "LineItem_ROE" -> {"equity_capital", "roe_rate", "claimed_roe"}
      [] cls = "LineItem_NTI" -> {"myt_baseline_nti", "base_income_from_accounts"}
      [] cls = "LineItem_MasterTrust" ->
            {"total_bond_interest", "sbu_allocation_ratio", "claimed_bond_interest_sbu",
             "annual_principal_repayment", "claimed_principal_repayment_sbu",
             "actuarial_liability_current_year", "provisional_cap",
             "claimed_additional_contribution_sbu", "actuarial_report_submitted",
             "govt_approval_obtained"}
      [] cls = "LineItem_MTAdditional" ->
            {"actuarial_liability_current_year", "provisional_cap", "sbu_allocation_ratio",
             "claimed_additional_contribution_sbu", "actuarial_report_submitted",
             "govt_approval_obtained"}
      [] cls = "LineItem_PayRevision" -> {"normative_employee_cost", "actual_employee_cost"}
      [] OTHER -> {}

\* the input dictionary without the keys in dropped
Without(inputs, dropped) == [k \in DOMAIN inputs \ dropped |-> inputs[k]]

PartialInputsFor(cls) ==
    { Without(inputs, dropped) :
          inputs \in InputsFor(cls),
          dropped \in {d \in SUBSET HeuristicRequiredKeys(cls) : Cardinality(d) <= MaxDropped} }

\* line_item.run_heuristic(inputs) / run_all_heuristics(inputs), the caller
\* keeping the dictionary it passed
EvaluateCall(key, inputs) ==
    /\ IF RequiredKeys(items[key].cls) \subseteq DOMAIN inputs
       THEN /\ items' = [items EXCEPT ![key] = Run(key, items[key], inputs)]
            /\ ret' = [op |-> "evaluate", key |-> key, raised |-> FALSE, inputs |-> inputs]
       ELSE /\ items' = items
            /\ ret' = [op |-> "evaluate", key |-> key, raised |-> TRUE, inputs |-> inputs]
    /\ UNCHANGED <<sbu, total_arr, aggregation_complete, reviews>>

NextEval ==
    \E key \in DOMAIN items : \E inputs \in PartialInputsFor(items[key].cls) :
        EvaluateCall(key, inputs)

SpecEval == Init /\ [][NextEval]_vars

----
\* run_all_heuristics of the multi-pattern line items, call by call

\* one call of a heuristic in a run_all_heuristics method: the identifier and
\* the depends_on list of the record the heuristic returns, its is_primary
\* and output_type, the keys the call reads with inputs[...], and whether the
\* call passes a keyword argument that the heuristic does not declare
HeuristicCall(heuristic_id, depends_on, is_primary, output_type, keys, unknown_keyword) ==
    [heuristic_id    |-> heuristic_id,
     depends_on      |-> depends_on,
     is_primary      |-> is_primary,
     output_type     |-> output_type,
     keys            |-> keys,
     unknown_keyword |-> unknown_keyword]

LineItem_IFC_calls ==
    << HeuristicCall("IFC-LTL-01", {"DEP-GEN-01"}, TRUE, "normative",
                     {"opening_normative_loan", "gfa_additions", "depreciation",
                      "opening_interest_rate", "claimed_interest"}, FALSE),
       HeuristicCall("IFC-WC-01", {"OM-NORM-01"}, TRUE, "normative",
                     {"approved_om_expenses", "opening_gfa_excl_land", "sbi_eblr_rate",
                      "claimed_wc_interest"}, FALSE),
       HeuristicCall("IFC-GPF-01", {}, TRUE, "pass_through",
                     {"opening_gpf_balance_company", "closing_gpf_balance_company",
                      "gpf_interest_rate", "sbu_allocation_ratio",
                      "claimed_gpf_interest_sbu"}, FALSE),
       HeuristicCall("IFC-OTH-02", {}, TRUE, "mixed",
                     {"claimed_gbi", "claimed_bank_charges"}, FALSE) >>

LineItem_MasterTrust_calls ==
    << HeuristicCall("MT-BOND-01", {}, TRUE, "pass_through",
                     {"total_bond_interest", "sbu_allocation_ratio",
                      "claimed_bond_interest_sbu"}, FALSE),
       HeuristicCall("MT-REPAY-01", {}, TRUE, "pass_through",
                     {"annual_principal_repayment", "sbu_allocation_ratio",
                      "claimed_principal_repayment_sbu"}, FALSE),
       HeuristicCall("MT-ADD-01", {}, TRUE, "conditional",
                     {"actuarial_liability_current_year", "provisional_cap",
                      "sbu_allocation_ratio", "claimed_additional_contribution_sbu",
                      "actuarial_report_submitted", "govt_approval_obtained"}, FALSE) >>

LineItem_OM_Expenses_calls ==
    << HeuristicCall("OM-INFL-01", {}, FALSE, "calculated_value",
                     {"cpi_old", "cpi_new", "wpi_old", "wpi_new"}, FALSE),
       HeuristicCall("OM-NORM-01", {"OM-INFL-01"}, TRUE, "approved_amount",
                     {"base_year_om", "inflation_2022_23", "inflation_2023_24",
                      "claimed_existing"}, FALSE),
       HeuristicCall("OM-APPORT-01", {"OM-NORM-01"}, FALSE, "prudence_check",
                     {"actual_employee", "actual_ag", "actual_rm"}, FALSE),
       HeuristicCall("EMP-PAYREV-01", {"OM-APPORT-01"}, FALSE, "prudence_check",
                     {"actual_employee"}, FALSE) >>

\* every key is read with inputs.get(key, default); the call of IFC-SD-01
\* passes sd_opening, sd_closing, interest_rate_prev and interest_rate_current,
\* which heuristic_IFC_SD_01 does not declare
LineItem_IFC_D_calls ==
    << HeuristicCall("IFC-LTL-01",   {"DEP-GEN-01"}, TRUE, "normative",       {}, FALSE),
       HeuristicCall("IFC-SD-01",    {},             TRUE, "approved_amount", {}, TRUE),
       HeuristicCall("IFC-GPF-01",   {},             TRUE, "pass_through",    {}, FALSE),
       HeuristicCall("IFC-OTH-D-01", {},             TRUE, "approved_amount", {}, FALSE),
       HeuristicCall("MT-BOND-01",   {},             TRUE, "pass_through",    {}, FALSE),
       HeuristicCall("IFC-CC-01",    {"IFC-WC-01"},  TRUE, "approved_amount", {}, FALSE),
       HeuristicCall("IFC-WC-01",    {"OM-NORM-01"}, TRUE, "normative",       {}, FALSE) >>

\* the calls of run_all_heuristics in the order the method makes them
HeuristicCalls(cls) ==
    CASE cls = "LineItem_IFC"         -> LineItem_IFC_calls
      [] cls = "LineItem_MasterTrust" -> LineItem_MasterTrust_calls
      [] cls = "LineItem_OM_Expenses" -> LineItem_OM_Expenses_calls
      [] cls = "LineItem_IFC_D"       -> LineItem_IFC_D_calls

\* the record a call appends to results, kept to the fields that do not
\* depend on the amounts in the dictionary
CallRecord(call) ==
    [heuristic_id |-> call.heuristic_id,
     depends_on   |-> call.depends_on,
     is_primary   |-> call.is_primary,
     output_type  |-> call.output_type] @@ StaffReviewUnset

\* the first call from i on that raises for this dictionary (KeyError for a
\* missing key, TypeError for an undeclared keyword), Len(calls) + 1 if none
RECURSIVE FirstRaising(_, _, _)
FirstRaising(calls, inputs, i) ==
    IF i > Len(calls) THEN i
    ELSE IF calls[i].unknown_keyword \/ ~(calls[i].keys \subseteq DOMAIN inputs) THEN i
    ELSE FirstRaising(calls, inputs, i + 1)

\* variant of run_all_heuristics: every record is appended to
\* self.heuristic_results as soon as its heuristic returns
run_all_heuristics_appends_in_place(li, inputs) ==
    LET calls == HeuristicCalls(li.cls)
        n     == FirstRaising(calls, inputs, 1)
    IN  [raised  |-> n <= Len(calls),
         invoked |-> [i \in 1..(n - 1) |-> calls[i].heuristic_id],
         li      |-> [li EXCEPT !.heuristic_results =
                                    [i \in 1..(n - 1) |-> CallRecord(calls[i])]]]

\* run_all_heuristics: the records are appended to the local list results,
\* which is assigned to self.heuristic_results after the last call
run_all_heuristics(li, inputs) ==
    LET calls   == HeuristicCalls(li.cls)
        n       == FirstRaising(calls, inputs, 1)
        results == [i \in 1..(n - 1) |-> CallRecord(calls[i])]
    IN  [raised  |-> n <= Len(calls),
         invoked |-> [i \in 1..(n - 1) |-> calls[i].heuristic_id],
         li      |-> IF n <= Len(calls) THEN li
                     ELSE [li EXCEPT !.heuristic_results = results]]

\* the multi-pattern line items of each unit
MultiScopes ==
    { [sbu |-> "G", keys |-> {"om_expenses", "ifc"}],
      [sbu |-> "T", keys |-> {"master_trust"}],
      [sbu |-> "D", keys |-> {"ifc"}] }

\* keys filled in on the form of the Distribution line item
LineItem_IFC_D_FormKeys == {"claimed_interest", "sd_opening"}

\* the keys of a complete form of the line item
FormKeys(cls) ==
    IF cls = "LineItem_IFC_D" THEN LineItem_IFC_D_FormKeys
    ELSE UNION {HeuristicCalls(cls)[i].keys : i \in 1..Len(HeuristicCalls(cls))}

\* the dictionaries handed to run_all_heuristics: the complete form and the
\* form with up to MaxDropped keys missing (the values play no part in
\* CallRecord and are left at 0)
MultiInputsFor(cls) ==
    { [k \in FormKeys(cls) \ dropped |-> 0] :
          dropped \in {d \in SUBSET FormKeys(cls) : Cardinality(d) <= MaxDropped} }

InitMulti ==
    \E sc \in MultiScopes :
        /\ sbu = sc.sbu
        /\ items = create_line_items_for_sbu(sc.sbu, sc.keys)
        /\ total_arr = 0
        /\ aggregation_complete = FALSE
        /\ ret = [op |-> "create_sbu"]
        /\ reviews = 0

\* line_item.run_all_heuristics(inputs)
RunAllHeuristics(key, inputs) ==
    LET r == run_all_heuristics(items[key], inputs)
    IN  /\ items' = [items EXCEPT ![key] = r.li]
        /\ ret' = [op |-> "run_all_heuristics", key |-> key, raised |-> r.raised,
                   invoked |-> r.invoked]
        /\ UNCHANGED <<sbu, total_arr, aggregation_complete, reviews>>

NextMulti ==
    \/ \E key \in DOMAIN items : \E inputs \in MultiInputsFor(items[key].cls) :
          RunAllHeuristics(key, inputs)
    \/ \E key \in DOMAIN items : \E idx \in 1..Len(_get_all_results(items[key])) :
          Accept(key, idx)

SpecMulti == InitMulti /\ [][NextMulti]_vars

----
\* Vocabulary of the properties

\* every record the line item holds, in either storage attribute
StoredRecords(li) == li.heuristic_result \o li.heuristic_results

StatusOf(r) == RGet(r, "staff_review_status", None)

\* staff_approved_amount if present, else recommended_amount
EffectiveAmount(r) ==
    IF RGet(r, "staff_approved_amount", NoAmount) # NoAmount
    THEN r.staff_approved_amount
    ELSE RGet(r, "recommended_amount", NoAmount)

IsPrimary(r) == RGet(r, "is_primary", FALSE)

Qualifies(r) == IsPrimary(r) /\ RGet(r, "output_type", None) = "approved_amount"

QualifyingIdx(rs) == {i \in 1..Len(rs) : Qualifies(rs[i])}

PrimaryIdx(rs) == {i \in 1..Len(rs) : IsPrimary(rs[i])}

RECURSIVE SumEffective(_, _)
SumEffective(rs, idxs) ==
    IF idxs = {} THEN 0
    ELSE LET i == CHOOSE j \in idxs : TRUE
         IN  EffectiveAmount(rs[i]) + SumEffective(rs, idxs \ {i})

\* the reviewer changed the amount of the record
OverriddenByAmount(r) ==
    /\ StatusOf(r) = "Overridden"
    /\ RGet(r, "staff_approved_amount", NoAmount) # NoAmount
    /\ r.staff_approved_amount # RGet(r, "recommended_amount", NoAmount)

\* record i is the only record get_approved_amount reads an amount from
SoleCounted(li, i) ==
    LET rs == StoredRecords(li)
    IN  \/ li.pattern = "single"
        \/ /\ li.pattern = "multi"
           /\ \/ QualifyingIdx(rs) = {i}
              \/ /\ QualifyingIdx(rs) = {}
                 /\ i \in PrimaryIdx(rs)
                 /\ \A j \in PrimaryIdx(rs) : i <= j

Ready == check_aggregation_ready(items).ready_for_aggregation

\* resolved amount of a line item, zero when it has none
ResolvedOrZero(li) ==
    IF get_approved_amount(li) = NoAmount THEN 0 ELSE get_approved_amount(li)

RECURSIVE SumResolved(_, _)
SumResolved(its, keys) ==
    IF keys = {} THEN 0
    ELSE LET k == CHOOSE x \in keys : TRUE
         IN  ResolvedOrZero(its[k]) + SumResolved(its, keys \ {k})

\* additive total minus subtractive total, before any rounding
NetRequirement ==
    LET additive    == {k \in DOMAIN items : ConfigEntry(sbu, k).is_expense}
        subtractive == DOMAIN items \ additive
    IN  SumResolved(items, additive) - SumResolved(items, subtractive)

Worst(flags) ==
    IF "RED" \in flags THEN "RED" ELSE IF "YELLOW" \in flags THEN "YELLOW" ELSE "GREEN"

----
\* Properties

C4_ReadyIffAllComplete ==
    /\ Ready = (\A k \in DOMAIN items : check_review_status(items[k]).complete)
    /\ (\E k \in DOMAIN items : \E i \in 1..Len(StoredRecords(items[k])) :
            StatusOf(StoredRecords(items[k])[i]) = "Pending") => ~Ready
    /\ (\E k \in DOMAIN items : StoredRecords(items[k]) = <<>>) => ~Ready
    /\ ret.op = "check_aggregation_ready"
          => /\ ret.value.ready_for_aggregation = Ready
             /\ aggregation_complete = Ready

C4_Witness ==
    /\ ret.op = "check_aggregation_ready"
    /\ ret.value.ready_for_aggregation
    /\ \A k \in DOMAIN items : StoredRecords(items[k]) # <<>>

\* the counts the review status of a line item has to report
CountStored(li, status) ==
    Cardinality({i \in 1..Len(StoredRecords(li)) : StatusOf(StoredRecords(li)[i]) = status})

ReviewStatusMatches(li) ==
    LET st == check_review_status(li)
    IN  /\ st.total = Len(StoredRecords(li))
        /\ st.pending = CountStored(li, "Pending")
        /\ st.accepted = CountStored(li, "Accepted")
        /\ st.overridden = CountStored(li, "Overridden")
        /\ st.complete = (st.total > 0 /\ st.pending = 0)

\* C5 as stated: review_status() of every line item reports total = number of
\* stored records, pending / accepted / overridden = number of stored records
\* of that status, and complete iff total > 0 and pending = 0.
C5_ReviewStatusCounts ==
    \A k \in DOMAIN items : ReviewStatusMatches(items[k])

\* C5 for the line items that run a heuristic (pattern single or multi)
C5_ReviewStatusCounts_HeuristicItems ==
    \A k \in DOMAIN items : items[k].pattern # "none" => ReviewStatusMatches(items[k])

\* a record as evaluation has to leave it: Pending, no reviewer decision
Unreviewed(r) ==
    /\ StatusOf(r) = "Pending"
    /\ RGet(r, "staff_override_flag", None) = None
    /\ RGet(r, "staff_approved_amount", NoAmount) \in {NoAmount, r.recommended_amount}
    /\ RGet(r, "staff_justification", "") = ""
    /\ RGet(r, "reviewed_by", None) = None
    /\ RGet(r, "reviewed_at", None) = None

\* C6 as stated: right after an evaluation of a line item every record the
\* line item stores is Pending and carries no reviewer decision of the
\* records it replaced.
C6_EvaluationResetsReview ==
    (ret.op = "evaluate" /\ ~ret.raised)
        => \A i \in 1..Len(StoredRecords(items[ret.key])) :
               Unreviewed(StoredRecords(items[ret.key])[i])

\* C6 for the line items that run a heuristic (pattern single or multi)
C6_EvaluationResetsReview_HeuristicItems ==
    (ret.op = "evaluate" /\ ~ret.raised /\ items[ret.key].pattern # "none")
        => \A i \in 1..Len(StoredRecords(items[ret.key])) :
               Unreviewed(StoredRecords(items[ret.key])[i])

\* C7: once the unit is ready for aggregation, a re-evaluation of any of its
\* line items makes it not ready, and it stays not ready as long as a record
\* of a line item is Pending.
C7_ReevaluationRegresses ==
    [][ /\ (ret'.op = "evaluate" /\ ~ret'.raised /\ Ready)
            => ~check_aggregation_ready(items').ready_for_aggregation
        /\ (\E k \in DOMAIN items' : \E i \in 1..Len(StoredRecords(items'[k])) :
                StatusOf(StoredRecords(items'[k])[i]) = "Pending")
            => ~check_aggregation_ready(items').ready_for_aggregation ]_vars

C7_Witness ==
    /\ aggregation_complete
    /\ ret.op = "evaluate"
    /\ ~ret.raised
    /\ reviews >= 2
    /\ \A k \in DOMAIN items : StoredRecords(items[k]) # <<>>
    /\ \A k \in DOMAIN items \ {ret.key} : check_review_status(items[k]).complete
    /\ ~Ready

\* C8 as stated: the net requirement is the sum of the resolved amounts of
\* the additive line items minus that of the subtractive ones, a line item
\* without resolved amount counting zero.
C8_NetIsSignedSum ==
    ret.op = "calculate_total_arr" => ret.value = NetRequirement

\* C8 amended: the net requirement is that signed sum rounded to two
\* decimal places.
C8_NetIsRoundedSignedSum ==
    /\ calculate_total_arr(sbu, items) = Round2(NetRequirement)
    /\ ret.op = "calculate_total_arr"
          => /\ ret.value = Round2(NetRequirement)
             /\ total_arr = ret.value

C8_Witness ==
    /\ ret.op = "calculate_total_arr"
    /\ sbu = "G"
    /\ get_approved_amount(items["roe"]) = 1000000
    /\ get_approved_amount(items["nti"]) = 200000
    /\ ret.value = 800000

OverallFlagMatches(li) ==
    LET rs == StoredRecords(li)
    IN  /\ get_overall_flag(li) = "PENDING" <=> rs = <<>>
        /\ rs # <<>> =>
              get_overall_flag(li) = Worst({EffectiveFlag(rs[i]) : i \in 1..Len(rs)})

\* C9 as stated: overall_flag() is PENDING iff the line item stores no record,
\* and otherwise the worst of the stored records' effective flags.
C9_OverallFlagWorstCase ==
    \A k \in DOMAIN items : OverallFlagMatches(items[k])

\* C9 for the line items that run a heuristic (pattern single or multi)
C9_OverallFlagWorstCase_HeuristicItems ==
    \A k \in DOMAIN items : items[k].pattern # "none" => OverallFlagMatches(items[k])

ReviewStatuses == {"Pending", "Accepted", "Overridden"}

\* C10 as stated, its state part: the status of every stored record is one of
\* Pending, Accepted, Overridden, and Pending right after the evaluation that
\* produced the record.
C10_StatusDomain ==
    /\ \A k \in DOMAIN items : \A i \in 1..Len(StoredRecords(items[k])) :
           StatusOf(StoredRecords(items[k])[i]) \in ReviewStatuses
    /\ (ret.op = "evaluate" /\ ~ret.raised)
           => \A i \in 1..Len(StoredRecords(items[ret.key])) :
                  StatusOf(StoredRecords(items[ret.key])[i]) = "Pending"

\* C10, its transition part: between two states the status of a record that
\* stays in place changes only in a review step, and then to Accepted or
\* Overridden; a Pending status appears only with an evaluation.
C10_StatusTransitions ==
    [][ \A k \in DOMAIN items :
            LET old == StoredRecords(items[k])
                new == StoredRecords(items'[k])
            IN  \A i \in 1..Len(new) :
                    \/ /\ i <= Len(old)
                       /\ StatusOf(new[i]) = StatusOf(old[i])
                    \/ /\ ret'.op = "review"
                       /\ ret'.accepted
                       /\ StatusOf(new[i]) \in {"Accepted", "Overridden"}
                    \/ /\ ret'.op = "evaluate"
                       /\ ret'.key = k
                       /\ StatusOf(new[i]) \in {"Pending", None} ]_vars

\* the forms the review has to turn down: no reviewer name, or an override
\* without justification
RejectedForm(review_option, staff_name, text) ==
    \/ staff_name = ""
    \/ review_option \in {"Override Flag", "Override Amount"} /\ text = ""

\* C11: a review attempt without reviewer name, or an override attempt
\* without justification, is rejected, and a rejected attempt leaves every
\* field of every record as it was.
C11_RejectedReviewLeavesRecord ==
    [][ /\ \A review_option \in {"Accept", "Override Flag", "Override Amount", "Add Remarks"},
              staff_name \in StaffNames, text \in Justifications :
                ReviewFormValid(review_option, staff_name, text)
                    <=> ~RejectedForm(review_option, staff_name, text)
        /\ (ret'.op = "review" /\ ~ret'.accepted) => items' = items ]_vars

C11_Witness ==
    /\ ret.op = "review"
    /\ ~ret.accepted
    /\ \E k \in DOMAIN items : \E i \in 1..Len(StoredRecords(items[k])) :
           /\ StatusOf(StoredRecords(items[k])[i]) = "Overridden"
           /\ StoredRecords(items[k])[i].staff_approved_amount = 0

\* the reviewer and the time of the review are both recorded on the record
ReviewerRecorded(r) ==
    /\ RGet(r, "reviewed_by", None) \notin {None, ""}
    /\ RGet(r, "reviewed_at", None) # None

C13_OverrideFieldsOneWay ==
    [][ \A k \in DOMAIN items :
            LET old == StoredRecords(items[k])
                new == StoredRecords(items'[k])
            IN  \A i \in 1..Len(old) :
                    \/ /\ i <= Len(new)
                       /\ RGet(old[i], "staff_override_flag", None) # None
                             => RGet(new[i], "staff_override_flag", None) # None
                       /\ RGet(old[i], "staff_approved_amount", NoAmount) # NoAmount
                             => RGet(new[i], "staff_approved_amount", NoAmount) # NoAmount
                    \/ /\ ret'.op = "evaluate"
                       /\ ~ret'.raised
                       /\ ret'.key = k ]_vars

C13_Witness ==
    /\ ret.op = "review"
    /\ ret.accepted
    /\ \E k \in DOMAIN items : \E i \in 1..Len(StoredRecords(items[k])) :
           LET r == StoredRecords(items[k])[i]
           IN  /\ StatusOf(r) = "Accepted"
               /\ r.staff_override_flag = "RED"
               /\ r.staff_approved_amount = 0

\* C14 as stated: a stored record carries a staff_approved_amount or a
\* staff_override_flag only while its status is Overridden; a Pending or an
\* Accepted record carries neither.
C14_OverrideFieldsOnlyWhenOverridden ==
    \A k \in DOMAIN items : \A i \in 1..Len(StoredRecords(items[k])) :
        LET r == StoredRecords(items[k])[i]
        IN  /\ RGet(r, "staff_approved_amount", NoAmount) # NoAmount
                  => StatusOf(r) = "Overridden"
            /\ RGet(r, "staff_override_flag", None) # None
                  => StatusOf(r) = "Overridden"

\* C14 for the records of the heuristics that return the Staff Review
\* section unset (ROE-01, NTI-01, EMP-PAYREV-01): a Pending record of these
\* carries neither field.
C14_UnsetHeuristicsNeverOverridden ==
    \A k \in DOMAIN items : \A i \in 1..Len(StoredRecords(items[k])) :
        LET r == StoredRecords(items[k])[i]
        IN  (r.heuristic_id \in {"ROE-01", "NTI-01", "EMP-PAYREV-01"}
             /\ StatusOf(r) = "Pending")
                => /\ r.staff_approved_amount = NoAmount
                   /\ r.staff_override_flag = None

\* C15 as stated: right after an evaluation every record the line item stores
\* is Pending with staff_override_flag, staff_approved_amount, reviewed_by
\* and reviewed_at all null.
C15_EvaluationLeavesReviewFieldsNull ==
    (ret.op = "evaluate" /\ ~ret.raised)
        => \A i \in 1..Len(StoredRecords(items[ret.key])) :
               LET r == StoredRecords(items[ret.key])[i]
               IN  /\ StatusOf(r) = "Pending"
                   /\ RGet(r, "staff_override_flag", None) = None
                   /\ RGet(r, "staff_approved_amount", NoAmount) = NoAmount
                   /\ RGet(r, "reviewed_by", None) = None
                   /\ RGet(r, "reviewed_at", None) = None

\* C15, its frame part: between two states a Staff Review field of a record
\* in place changes only in a successful review step or in an evaluation of
\* the line item.
C15_ReviewFieldsFrame ==
    [][ \A k \in DOMAIN items :
            \/ StoredRecords(items'[k]) = StoredRecords(items[k])
            \/ ret'.op = "review" /\ ret'.accepted
            \/ ret'.op = "evaluate" /\ ~ret'.raised /\ ret'.key = k ]_vars

\* every line item stores at least one record and no record is Pending
AllReviewed ==
    \A k \in DOMAIN items :
        /\ StoredRecords(items[k]) # <<>>
        /\ \A i \in 1..Len(StoredRecords(items[k])) :
               StatusOf(StoredRecords(items[k])[i]) # "Pending"

\* C16 as stated: a report of get_sbu_summary or export_to_dict shows
\* ready_for_aggregation or aggregation_complete true only if, in the state
\* the report is produced in, every line item has a record and no record is
\* Pending.
C16_ReportedReadinessTruthful ==
    /\ ret.op = "get_sbu_summary"
          => /\ ret.value.aggregation_status.ready_for_aggregation => AllReviewed
             /\ ret.value.aggregation_complete => AllReviewed
    /\ ret.op = "export_to_dict"
          => (ret.value.aggregation_complete => AllReviewed)

\* C16 for get_sbu_summary alone, which recomputes the readiness
C16_SummaryReadinessTruthful ==
    ret.op = "get_sbu_summary"
        => /\ ret.value.aggregation_status.ready_for_aggregation => AllReviewed
           /\ ret.value.aggregation_complete => AllReviewed

\* C17, read with the two-decimal rounding of C8: the net figure returned by
\* calculate_total_arr and the total_arr of get_sbu_summary,
\* get_drill_down_data and export_to_dict equal the rounded signed sum of the
\* resolved amounts in the state the call is made in.
C17_ReportedNetIsCurrent ==
    /\ ret.op = "calculate_total_arr" => ret.value = Round2(NetRequirement)
    /\ ret.op \in {"get_sbu_summary", "get_drill_down_data", "export_to_dict"}
          => ret.value.total_arr = Round2(NetRequirement)

\* C17 for the two calls that recompute the figure
C17_RecomputedNetIsCurrent ==
    /\ ret.op = "calculate_total_arr" => ret.value = Round2(NetRequirement)
    /\ ret.op = "get_sbu_summary" => ret.value.total_arr = Round2(NetRequirement)

\* the entries of a pending list that name the line item and the heuristic
EntriesFor(pending, name, heuristic_id) ==
    {n \in 1..Len(pending) : /\ pending[n].line_item = name
                             /\ pending[n].heuristic_id = heuristic_id}

\* the pending list has one entry for each of the given records of each line
\* item that is neither Accepted nor Overridden, and no other entry
PendingListMatches(pending, records(_)) ==
    /\ \A k \in DOMAIN items : \A i \in 1..Len(records(items[k])) :
           LET r == records(items[k])[i]
           IN  Cardinality(EntriesFor(pending, line_item_name(k, items[k]), r.heuristic_id))
                   = IF StatusOf(r) \in {"Accepted", "Overridden"} THEN 0 ELSE 1
    /\ \A n \in 1..Len(pending) :
           \E k \in DOMAIN items : \E i \in 1..Len(records(items[k])) :
               /\ pending[n].line_item = line_item_name(k, items[k])
               /\ pending[n].heuristic_id = records(items[k])[i].heuristic_id

\* C18 as stated: get_pending_reviews holds exactly one entry, naming line
\* item and heuristic id, for each stored record of the unit that is neither
\* Accepted nor Overridden, and none for an Accepted or Overridden record.
C18_PendingListsUnreviewed ==
    ret.op = "get_pending_reviews" => PendingListMatches(ret.value, StoredRecords)

\* C18 for the records the queries of LineItemBase see
C18_PendingListsUnreviewed_VisibleRecords ==
    ret.op = "get_pending_reviews" => PendingListMatches(ret.value, _get_all_results)

\* C19 as stated: a Master Trust Obligations line item that has been
\* evaluated (MT-BOND-01, MT-REPAY-01, MT-ADD-01, all primary) resolves to
\* the sum of the effective amounts of all its records.
C19_ComponentsSummed ==
    \A k \in DOMAIN items :
        LET rs == StoredRecords(items[k])
        IN  (items[k].cls = "LineItem_MasterTrust" /\ rs # <<>>)
                => /\ \A i \in 1..Len(rs) : IsPrimary(rs[i])
                   /\ get_approved_amount(items[k]) = SumEffective(rs, 1..Len(rs))

\* what get_approved_amount does return for the line item: the effective
\* amount of its first record
C19_FirstComponentOnly ==
    \A k \in DOMAIN items :
        LET rs == StoredRecords(items[k])
        IN  (items[k].cls = "LineItem_MasterTrust" /\ rs # <<>>)
                => get_approved_amount(items[k]) = EffectiveAmount(rs[1])

\* C20 as stated: after run_heuristic with approved_amount = a on an
\* upstream-transfer line item, the line item resolves to a, and a is added
\* into the net requirement of the unit.
C20_TransferResolvesToApproved ==
    (ret.op = "evaluate" /\ ~ret.raised /\ items[ret.key].cls = "LineItem_SBUTransfer")
        => LET li == items[ret.key]
               a  == StoredRecords(li)[1].recommended_amount
           IN  /\ a \in {inputs.approved_amount : inputs \in SBUTransfer_Inputs}
               /\ get_approved_amount(li) = a
               /\ calculate_total_arr(sbu, items)
                     = Round2(a + SignedSum(sbu, items, DOMAIN items \ {ret.key}))

\* what the code does instead: the transfer line item never resolves
C20_TransferNeverResolves ==
    \A k \in DOMAIN items :
        items[k].cls = "LineItem_SBUTransfer"
            => /\ get_approved_amount(items[k]) = NoAmount
               /\ calculate_total_arr(sbu, items)
                     = Round2(SignedSum(sbu, items, DOMAIN items \ {k}))

\* a call of a heuristic has returned its record
Returned == ret.op # "import"

\* the amount claimed in a call
ClaimedAmount(call) ==
    IF call.op = "heuristic_MT_ADD_01"
    THEN call.args.claimed_additional_contribution_sbu
    ELSE call.result.claimed_value

\* the whole claim is disallowed: an amount was claimed and nothing is allowed
Disallowed(call) == ClaimedAmount(call) # 0 /\ call.result.recommended_amount = 0

\* C21 as stated: a heuristic that is given all its parameters and disallows
\* the amount claimed returns a record whose flag is RED.
C21_DisallowanceIsRed ==
    (Returned /\ Disallowed(ret)) => ret.result.flag = "RED"

\* C21 for the heuristics other than TRANS-INCENT-01
C21_DisallowanceIsRed_OtherHeuristics ==
    (Returned /\ ret.op # "heuristic_TRANS_INCENT_01" /\ Disallowed(ret))
        => ret.result.flag = "RED"

\* the dictionary of the last evaluation lacks a key of a parameter that the
\* heuristic declares as required
LacksRequired ==
    /\ ret.op = "evaluate"
    /\ ~(HeuristicRequiredKeys(items[ret.key].cls) \subseteq DOMAIN ret.inputs)

\* C22 as stated: an evaluation whose input dictionary lacks a key of a
\* required parameter of the heuristic fails; no record is computed from a
\* substituted default.
C22_MissingRequiredRaises ==
    LacksRequired => ret.raised

\* C22 for the line items that read their required keys with inputs[...]
C22_MissingRequiredRaises_Subscripted ==
    (LacksRequired /\ items[ret.key].cls \in {"LineItem_ROE", "LineItem_NTI",
                                              "LineItem_MasterTrust"})
        => ret.raised

\* C23: whenever EXC-01 is called with a government loss takeover different
\* from zero, of either sign, allowable_value and recommended_amount equal the
\* allowable natural-calamity component alone and the flag is RED, whatever
\* the calamity documentation inputs are.
C23_TakeoverExcluded ==
    (ret.op = "heuristic_EXC_01" /\ ret.args.claimed_govt_loss_takeover # 0)
        => LET calamity == IF ret.args.separate_account_code
                           THEN ret.args.claimed_calamity_rm ELSE 0
           IN  /\ ret.result.allowable_value = calamity
               /\ ret.result.recommended_amount = calamity
               /\ ret.result.flag = "RED"

\* a negative takeover claimed next to a fully documented calamity claim
C23_Witness ==
    /\ ret.op = "heuristic_EXC_01"
    /\ ret.args.claimed_govt_loss_takeover = -7677200
    /\ ret.args.claimed_calamity_rm = 100000
    /\ ret.args.separate_account_code
    /\ ret.args.calamity_supporting_docs
    /\ ret.result.allowable_value = 100000
    /\ ret.result.flag = "RED"

\* the identifiers of the heuristics of a line item, in the order in which
\* run_all_heuristics calls them
CallOrder(cls) == [i \in 1..Len(HeuristicCalls(cls)) |-> HeuristicCalls(cls)[i].heuristic_id]

\* the heuristics of the same line item that a heuristic names in depends_on
OwnDependencies(cls, heuristic_id) ==
    LET calls == HeuristicCalls(cls)
        own   == {calls[i].heuristic_id : i \in 1..Len(calls)}
        i     == CHOOSE j \in 1..Len(calls) : calls[j].heuristic_id = heuristic_id
    IN  calls[i].depends_on \cap own

\* in a list of identifiers each one comes after those it depends on
DependenciesFirst(cls, ids) ==
    \A i \in 1..Len(ids) :
        \A d \in OwnDependencies(cls, ids[i]) : \E j \in 1..(i - 1) : ids[j] = d

\* C24 as stated: in every multi-pattern line item a heuristic is invoked, and
\* its record stored, only after every heuristic of the same line item that it
\* names in depends_on; in the Distribution Interest & Finance Charges line
\* item IFC-WC-01 precedes IFC-CC-01.
C24_DependenciesFirst ==
    ret.op = "run_all_heuristics"
        => LET li == items[ret.key]
           IN  /\ DependenciesFirst(li.cls, CallOrder(li.cls))
               /\ DependenciesFirst(li.cls, ret.invoked)
               /\ DependenciesFirst(li.cls, [i \in 1..Len(li.heuristic_results) |->
                                                li.heuristic_results[i].heuristic_id])

\* C24 for the records that do get stored and the calls that do get made: the
\* Distribution line item raises at its second call and stores nothing, and
\* O&M Expenses stores OM-INFL-01, OM-NORM-01, OM-APPORT-01, EMP-PAYREV-01
C24_StoredDependenciesFirst ==
    /\ \A key \in DOMAIN items :
          LET li == items[key]
              stored == [i \in 1..Len(li.heuristic_results) |->
                            li.heuristic_results[i].heuristic_id]
          IN  /\ DependenciesFirst(li.cls, stored)
              /\ li.cls = "LineItem_OM_Expenses" /\ stored # <<>>
                    => stored = <<"OM-INFL-01", "OM-NORM-01", "OM-APPORT-01", "EMP-PAYREV-01">>
              /\ li.cls = "LineItem_IFC_D" => stored = <<>>
    /\ ret.op = "run_all_heuristics"
          => DependenciesFirst(items[ret.key].cls, ret.invoked)

\* a call of IFC-LTL-01 without disputed claims and without a high-cost loan
PlainLoanCall(a) ==
    a.disputed_claims = 0 /\ (a.highest_loan_rate = NoAmount \/ a.highest_loan_rate <= 9)

\* the record IFC-LTL-01 returns for the arguments a
IFC_LTL_01_Result(a) ==
    heuristic_IFC_LTL_01(a.opening_normative_loan, a.gfa_additions, a.depreciation,
                         a.opening_interest_rate, a.claimed_interest, a.disputed_claims,
                         a.highest_loan_rate, "", NoAmount, "")

\* the absolute variance percentage of a record is at most p
VarianceWithin(r, p) == AbsPctLe(r.claimed_value - r.allowable_value, r.allowable_value, p)

FlagSeverity(flag) == CASE flag = "GREEN" -> 0 [] flag = "YELLOW" -> 1 [] flag = "RED" -> 2

\* C25 as stated: for IFC-LTL-01 with no disputed claims and no high-cost loan
\* the flag is GREEN when the absolute variance percentage is at most 2, YELLOW
\* when it is above 2 and at most 15, RED when it is above 15; a call with a
\* variance at least as large against the same allowable never gets a less
\* severe flag.
C25_VarianceBands ==
    (ret.op = "heuristic_IFC_LTL_01" /\ PlainLoanCall(ret.args))
        => /\ ret.result.flag = IF VarianceWithin(ret.result, 2) THEN "GREEN"
                                ELSE IF VarianceWithin(ret.result, 15) THEN "YELLOW"
                                ELSE "RED"
           /\ \A b \in IFC_LTL_01_Args :
                 LET rb == IFC_LTL_01_Result(b)
                 IN  (/\ PlainLoanCall(b)
                      /\ rb.allowable_value = ret.result.allowable_value
                      /\ Abs(rb.claimed_value - rb.allowable_value)
                            >= Abs(ret.result.claimed_value - ret.result.allowable_value))
                        => FlagSeverity(rb.flag) >= FlagSeverity(ret.result.flag)

\* the bands the code applies: GREEN up to 5, RED above 5 up to 15, YELLOW
\* above 15
C25_VarianceBandsOfCode ==
    (ret.op = "heuristic_IFC_LTL_01" /\ PlainLoanCall(ret.args))
        => ret.result.flag = IF VarianceWithin(ret.result, 5) THEN "GREEN"
                             ELSE IF VarianceWithin(ret.result, 15) THEN "RED"
                             ELSE "YELLOW"

\* C26 as stated: MT-ADD-01 returns GREEN with the full actuarial liability
\* when the report is submitted and the approval obtained, YELLOW with the
\* provisional cap when the report is submitted and the approval is not, and
\* RED whenever no actuarial report is submitted.
C26_PolicyGate ==
    ret.op = "heuristic_MT_ADD_01"
        => LET a == ret.args
               share(x) == (x * a.sbu_allocation_ratio) \div 100
           IN  /\ (a.actuarial_report_submitted /\ a.govt_approval_obtained)
                     => /\ ret.result.flag = "GREEN"
                        /\ ret.result.recommended_amount
                              = share(a.actuarial_liability_current_year)
               /\ (a.actuarial_report_submitted /\ ~a.govt_approval_obtained)
                     => /\ ret.result.flag = "YELLOW"
                        /\ ret.result.recommended_amount
                              = share(Min(a.actuarial_liability_current_year,
                                          a.provisional_cap))
               /\ ~a.actuarial_report_submitted => ret.result.flag = "RED"

\* what the code does: the two cases with a report are as stated, and without
\* a report the flag is YELLOW and the provisional cap is allowed
C26_PolicyGateOfCode ==
    ret.op = "heuristic_MT_ADD_01"
        => LET a == ret.args
               share(x) == (x * a.sbu_allocation_ratio) \div 100
           IN  /\ (a.actuarial_report_submitted /\ a.govt_approval_obtained)
                     => /\ ret.result.flag = "GREEN"
                        /\ ret.result.recommended_amount
                              = share(a.actuarial_liability_current_year)
               /\ (a.actuarial_report_submitted /\ ~a.govt_approval_obtained)
                     => /\ ret.result.flag = "YELLOW"
                        /\ ret.result.recommended_amount
                              = share(Min(a.actuarial_liability_current_year,
                                          a.provisional_cap))
               /\ ~a.actuarial_report_submitted
                     => /\ ret.result.flag = "YELLOW"
                        /\ ret.result.recommended_amount = share(a.provisional_cap)

\* every line item has been evaluated and every record that the review form
\* offers has been reviewed: nothing is left that a session can do towards
\* readiness
EvaluatedAndReviewed ==
    \A k \in DOMAIN items :
        /\ StoredRecords(items[k]) # <<>>
        /\ \A i \in 1..Len(_get_all_results(items[k])) :
               StatusOf(_get_all_results(items[k])[i]) # "Pending"

\* C27 as stated: for each unit type the Fully Reviewed state is reachable
\* from the Empty state: once every line item has been evaluated with complete
\* inputs and the records have been reviewed with valid review actions,
\* check_aggregation_ready reports ready.
C27_FullyReviewedReachable ==
    EvaluatedAndReviewed => Ready

\* what the code does: a Generation or Transmission unit is ready once its
\* line items are evaluated and reviewed, a Distribution unit is never ready
C27_ReadyExceptDistribution ==
    IF sbu = "D" THEN ~Ready ELSE (EvaluatedAndReviewed => Ready)

\* a Generation or Transmission unit does become ready
C27_ReadyReached ==
    sbu \in {"G", "T"} /\ EvaluatedAndReviewed /\ Ready

\* every amount shown per heuristic in the last drill-down satisfies
\* shows(record, amount shown)
DrillDownAmounts(shows(_, _)) ==
    ret.op = "get_drill_down_data"
        => \A n \in 1..Len(ret.value.line_items_detail) :
              LET detail  == ret.value.line_items_detail[n]
                  records == _get_all_results(items[detail.key])
              IN  /\ Len(detail.heuristics) = Len(records)
                  /\ \A i \in 1..Len(records) :
                        shows(records[i], detail.heuristics[i].approved_amount)

ShowsEffectiveAmount(r, amount) == amount = EffectiveAmount(r)

ShowsEffectiveUnlessZero(r, amount) ==
    amount = IF RGet(r, "staff_approved_amount", NoAmount) = 0
             THEN RGet(r, "recommended_amount", NoAmount)
             ELSE EffectiveAmount(r)

\* C28 as stated: for every record shown by get_drill_down_data the
\* per-heuristic approved_amount is the amount get_approved_amount uses for the
\* record: staff_approved_amount whenever it is not None, an override to 0.0
\* included, otherwise recommended_amount.
C28_DrillDownShowsEffectiveAmount == DrillDownAmounts(ShowsEffectiveAmount)

\* what the code does: an override to 0.0 is shown as recommended_amount,
\* every other record as stated
C28_DrillDownPassesOverZero == DrillDownAmounts(ShowsEffectiveUnlessZero)

\* C29: if an evaluation of a line item fails, also part-way through the list
\* of a multi-pattern line item, the records stored before the call and their
\* review state are exactly as before; a partial list of new records is never
\* stored.
C29_FailedEvaluationLeavesRecords ==
    [][ /\ (ret'.op = "run_all_heuristics" /\ ret'.raised) => items' = items
        /\ \A key \in DOMAIN items' :
              Len(items'[key].heuristic_results)
                  \in {0, Len(HeuristicCalls(items'[key].cls))} ]_vars

\* an evaluation has failed after it had invoked heuristics, on a line item
\* that holds the complete list of an earlier evaluation with a reviewed record
C29_Witness ==
    /\ ret.op = "run_all_heuristics"
    /\ ret.raised
    /\ Len(ret.invoked) >= 1
    /\ Len(items[ret.key].heuristic_results) = Len(HeuristicCalls(items[ret.key].cls))
    /\ \E i \in 1..Len(items[ret.key].heuristic_results) :
          items[ret.key].heuristic_results[i].staff_review_status = "Accepted"

\* every Accepted record that passes the filter contributes the values of the
\* system: its effective flag is its flag and its effective amount its
\* recommended_amount; where it is the only record of a single-pattern line
\* item, these are the overall flag and the approved amount of the line item
AcceptedContributeSystemValues(filter(_)) ==
    \A k \in DOMAIN items : \A i \in 1..Len(_get_all_results(items[k])) :
        LET r == _get_all_results(items[k])[i]
        IN  (StatusOf(r) = "Accepted" /\ filter(r))
               => /\ EffectiveFlag(r) = r.flag
                  /\ EffectiveAmount(r) = r.recommended_amount
                  /\ items[k].pattern = "single"
                        => /\ get_overall_flag(items[k]) = r.flag
                           /\ IsPrimary(r)
                                 => get_approved_amount(items[k]) = r.recommended_amount

AnyRecord(r) == TRUE

NeverOverridden(r) ==
    r.staff_override_flag = None /\ r.staff_approved_amount = NoAmount

\* C30 as stated: in every reachable state, also after Accept is applied to a
\* record that was overridden earlier, an Accepted record contributes the
\* values of the system: its effective flag in get_overall_flag is its flag and
\* its effective amount in get_approved_amount is its recommended_amount.
C30_AcceptedContributesSystemValues == AcceptedContributeSystemValues(AnyRecord)

\* what the code does: this holds for the Accepted records that carry no
\* override; Accept leaves the override fields of an earlier override in place
C30_AcceptedWithoutOverride == AcceptedContributeSystemValues(NeverOverridden)

====
